---- MODULE Spec2Model ----
(***************************************************************************)
(* A model of the Q subscription-sharing Telegram bot: the per-user        *)
(* session, the users / subscription / leaveRequest / payment / balance    *)
(* tables, the update dispatch chain of src/src/bot/index.js and the       *)
(* workflow handlers it calls.                                             *)
(*                                                                         *)
(* Texts typed by a user are sequences of one-character strings, so that   *)
(* trim(), toLowerCase(), split(' ') and the regular expressions of the    *)
(* handlers are computed rather than assumed.  Identifiers (user ids,      *)
(* subscription ids, step names, button names) are strings.                *)
(*                                                                         *)
(* `prisma` is read as the database client of db/client.js throughout,     *)
(* also where a file uses the name without importing it.  Every update of  *)
(* one conversation is handled to completion before the next one (spec     *)
(* section 5); the database calls of a handler are applied in program      *)
(* order.                                                                  *)
(***************************************************************************)
EXTENDS Integers, Sequences, FiniteSets, TLC

----------------------------------------------------------------------------
(* Null values of the three kinds of session / column value *)
NULL == "null"
NullT == <<"null">>
NoInt == -1

(* The participants of the model *)
Users == {"u1", "u2", "u3"}

----------------------------------------------------------------------------
(* String functions of JavaScript on texts *)

\* String.prototype.toLowerCase on the alphabet the model types
LowerChar(c) ==
  CASE c = "A" -> "a"
    [] c = "J" -> "j"
    [] c = "D" -> "d"
    [] c = "M" -> "m"
    [] OTHER -> c

ToLowerCase(t) == [i \in 1..Len(t) |-> LowerChar(t[i])]

IsSpace(c) == c = " "

RECURSIVE TrimLeft(_)
TrimLeft(t) == IF t # <<>> /\ IsSpace(Head(t)) THEN TrimLeft(Tail(t)) ELSE t

RECURSIVE TrimRight(_)
TrimRight(t) ==
  IF t # <<>> /\ IsSpace(t[Len(t)]) THEN TrimRight(SubSeq(t, 1, Len(t) - 1)) ELSE t

\* String.prototype.trim
Trim(t) == TrimRight(TrimLeft(t))

\* t.split(' ')[0]: the characters before the first space
RECURSIVE SplitFirst(_)
SplitFirst(t) ==
  IF t = <<>> \/ IsSpace(Head(t)) THEN <<>> ELSE <<Head(t)>> \o SplitFirst(Tail(t))

\* t.split(' ').length: one more than the number of spaces
SplitLength(t) == Cardinality({i \in 1..Len(t) : IsSpace(t[i])}) + 1

\* /menu/i.test(t)
MatchesMenu(t) ==
  \E i \in 1..(Len(t) - 3) :
    ToLowerCase(SubSeq(t, i, i + 3)) = <<"m", "e", "n", "u">>

\* /^[^\s@]+@[^\s@]+\.[^\s@]+$/.test(t)
EmailRegex(t) ==
  /\ \A i \in 1..Len(t) : ~IsSpace(t[i])
  /\ Cardinality({i \in 1..Len(t) : t[i] = "@"}) = 1
  /\ \E i \in 2..Len(t) :
       /\ t[i] = "@"
       /\ \E j \in (i + 2)..(Len(t) - 1) : t[j] = "."

\* text starts with the /start command
IsStartCommand(t) ==
  /\ Len(t) >= 6
  /\ SubSeq(t, 1, 6) = <<"/", "s", "t", "a", "r", "t">>
  /\ Len(t) > 6 => IsSpace(t[7])

----------------------------------------------------------------------------
(* Times are minutes since the process started *)
InactiveThreshold == 10
DayMinutes == 1440
LeaveGraceDays == 3

----------------------------------------------------------------------------
VARIABLES
  users,        \* rows of table users
  subs,         \* rows of table subscription
  leaveReqs,    \* rows of table leaveRequest, in creation order
  payments,     \* rows of table payment, in creation order
  balance,      \* table balance: userId -> amount, NoInt when there is no row
  session,      \* ctx.session of each conversation, in the session store safeSession uses
  now,          \* the clock
  nextRef,      \* the payment collaborator's next reference
  pc,           \* per participant: 0, or the attempt generateShortSubId is about to make
  joinLog,      \* history: the subscription updates made by verifyPayment
  last,         \* history: the reply that answered the last update
  storeUp,      \* whether pool.query('SELECT 1') of safeSession succeeds
  otherStore,   \* the sessions held by the session store safeSession is not using
  inflight,     \* per participant: how far its verifyPayment has got, and what it read
  fetching,     \* the fetchWithRetry call in progress: its loop counter and where it stands
  sweeping,     \* the run of the cron job in progress: the requests it found and the row it read
  dispatch,     \* the update safeSession is handling: where it stands and the next() calls made
  subcategoriesMap   \* the array of subcategories of every category, add-subscription.js

dbvars == <<users, subs, leaveReqs, payments, balance>>
storevars == <<storeUp, otherStore>>
vars ==
  <<users, subs, leaveReqs, payments, balance, session, now, nextRef, pc, joinLog, last,
    storeUp, otherStore, inflight, fetching, sweeping, dispatch, subcategoriesMap>>

EmptySession ==
  [ userId |-> NULL, step |-> NULL, persistentUser |-> NULL, platform |-> NULL,
    fullName |-> NullT, firstName |-> NullT, email |-> NullT, admin |-> NULL,
    verificationCode |-> NullT, newEmail |-> NullT,
    subCat |-> NULL, subSubCat |-> NULL, subPlan |-> NULL, subAmount |-> NoInt,
    subSlot |-> NoInt, subDuration |-> NoInt, subEmail |-> NullT,
    subPassword |-> NullT, shareType |-> NULL, whatsappNo |-> NullT, subId |-> NULL,
    browseCategory |-> NULL, browseSubcategory |-> NULL, browsePage |-> NoInt,
    browseSort |-> NULL, selectedSubId |-> NULL, authUrl |-> NULL,
    transferReference |-> NoInt, updateSubId |-> NULL, updateSlots |-> NoInt,
    leaveSubId |-> NULL, lastActive |-> NoInt, wasInactive |-> FALSE ]

\* no verifyPayment of the participant is under way
Idle ==
  [stage |-> 0, subId |-> NULL, subPlan |-> NULL, owner |-> NULL, amount |-> NoInt,
   subRemSlot |-> NoInt, userId |-> NULL, email |-> NullT, reference |-> NoInt]

\* safeSession is handling no update
NoUpdate == [stage |-> "idle", inCatch |-> FALSE, called |-> FALSE, runs |-> 0]

\* no run of the cron job is under way
NoSweep == [stage |-> "idle", queue |-> <<>>, crew |-> <<>>, email |-> NullT]

\* no fetchWithRetry call is under way
NoFetch ==
  [stage |-> "idle", retries |-> 0, i |-> 0, attempts |-> 0, log |-> <<>>,
   result |-> NULL, error |-> NULL]

NoEvent == "none"

\* the history of one handled update: the reply the handler h gave to the update ev of u
Did(u, ev, h, reply) == reply

----------------------------------------------------------------------------
(* Table lookups *)

\* prisma.users.findUnique({ where: { userId } })
UserRows(uid) == {r \in users : r.userId = uid}
HasUser(uid) == UserRows(uid) # {}
UserOf(uid) == CHOOSE r \in users : r.userId = uid

\* prisma.users.findFirst({ where: { email } })
EmailUsed(e) == \E r \in users : r.email = e

\* prisma.subscription.findUnique({ where: { subId } })
HasSub(id) == \E r \in subs : r.subId = id
SubOf(id) == CHOOSE r \in subs : r.subId = id

\* Array.prototype.includes on a crew
InCrew(crew, e) == \E i \in 1..Len(crew) : crew[i] = e

----------------------------------------------------------------------------
(* clearListingSession, src/src/bot/index.js *)
clearListingSession(s) ==
  [s EXCEPT !.step = NULL, !.subCat = NULL, !.subSubCat = NULL, !.subPlan = NULL,
            !.subAmount = NoInt, !.subSlot = NoInt, !.subDuration = NoInt,
            !.subEmail = NullT, !.subPassword = NullT, !.shareType = NULL,
            !.whatsappNo = NullT, !.subId = NULL, !.browseCategory = NULL,
            !.browseSubcategory = NULL, !.browsePage = NoInt, !.browseSort = NULL,
            !.selectedSubId = NULL, !.authUrl = NULL, !.transferReference = NoInt,
            !.updateSubId = NULL, !.updateSlots = NoInt, !.leaveSubId = NULL]

(* The inactivity middleware: whether the update is passed on, and the     *)
(* session it leaves.                                                      *)
InactivityMiddleware(s) ==
  IF s.lastActive = NoInt
    THEN [pass |-> TRUE, reset |-> FALSE, s |-> [s EXCEPT !.lastActive = now]]
  ELSE IF now - s.lastActive > InactiveThreshold
    THEN [pass |-> FALSE, reset |-> TRUE,
          s |-> clearListingSession([s EXCEPT !.wasInactive = TRUE, !.lastActive = now])]
  ELSE IF s.wasInactive
    THEN [pass |-> FALSE, reset |-> FALSE, s |-> [s EXCEPT !.wasInactive = FALSE]]
  ELSE [pass |-> TRUE, reset |-> FALSE, s |-> [s EXCEPT !.lastActive = now]]

\* what a handler does to the session and the reply it gives, the tables untouched
SessionOnly(u, s, ev, h, reply) ==
  /\ session' = [session EXCEPT ![u] = s]
  /\ last' = Did(u, ev, h, reply)
  /\ UNCHANGED <<dbvars, now, storevars, inflight, nextRef, pc, joinLog, fetching, sweeping, dispatch, subcategoriesMap>>

\* an update goes through the inactivity middleware and then to handler H
Deliver(u, ev, H(_)) ==
  LET m == InactivityMiddleware(session[u]) IN
  /\ pc[u] = 0
  /\ IF m.pass THEN H(m.s)
     ELSE SessionOnly(u, m.s, ev, "inactivity", IF m.reset THEN "mainMenu" ELSE "dropped")

----------------------------------------------------------------------------
(* Registration, src/src/bot/index.js *)

\* 6-digit verification codes, Math.floor(100000 + Math.random() * 900000).toString()
Codes == { <<"1", "2", "3", "4", "5", "6">>, <<"6", "5", "4", "3", "2", "1">> }

RegistrationSteps ==
  {"collectFullName", "collectEmail", "verifyCode", "editFullName", "editEmail",
   "verifyNewEmail"}

ListingSteps ==
  {"enterSlot", "enterEmail", "enterPassword", "enterWhatsApp", "updateSlots",
   "updateDuration"}

\* user.fullName?.split(' ')[0] || user.fullName
FirstNameOf(fullName) ==
  IF fullName = NullT THEN NullT
  ELSE IF SplitFirst(fullName) # <<>> THEN SplitFirst(fullName) ELSE fullName

\* the session fields ensureRegistered and /start copy from a users row
WithUser(s, r) ==
  [s EXCEPT !.persistentUser = "yes", !.email = r.email, !.fullName = r.fullName,
            !.firstName = FirstNameOf(r.fullName),
            !.admin = IF r.admin THEN "true" ELSE "false"]

\* ensureRegistered(ctx, next): Next(s) is what runs when the user is found
ensureRegistered(u, s0, ev, Next(_)) ==
  LET s == [s0 EXCEPT !.userId = u] IN
  IF HasUser(u)
    THEN Next(WithUser(s, UserOf(u)))
    ELSE SessionOnly(u, [s EXCEPT !.persistentUser = "no", !.platform = "telegram",
                                  !.step = "collectFullName"],
                     ev, "ensureRegistered", "askFullName")

\* bot.command('start')
StartCommand(u, s0) ==
  LET s1 == clearListingSession([s0 EXCEPT !.userId = u])
      s == [s1 EXCEPT !.step = NULL, !.email = NullT, !.firstName = NullT,
                      !.persistentUser = "no", !.platform = "telegram"]
  IN IF HasUser(u)
       THEN SessionOnly(u, [WithUser(s, UserOf(u)) EXCEPT
                              !.firstName = IF UserOf(u).fullName = NullT THEN <<>>
                                            ELSE SplitFirst(UserOf(u).fullName)],
                        "text", "start", "mainMenu")
       ELSE SessionOnly(u, [s EXCEPT !.step = "collectFullName"],
                        "text", "start", "askFullName")

\* bot.hears(/menu/i)
HearsMenu(u, s) == SessionOnly(u, clearListingSession(s), "text", "hearsMenu", "mainMenu")

\* handleRegistration, case 'collectFullName'
CollectFullName(u, s, t) ==
  IF Trim(t) = <<>>
    THEN SessionOnly(u, s, "text", "collectFullName", "invalidFullName")
    ELSE SessionOnly(u, [s EXCEPT !.fullName = Trim(t),
                                  !.firstName = IF SplitFirst(Trim(t)) # <<>>
                                                  THEN SplitFirst(Trim(t)) ELSE Trim(t),
                                  !.step = "collectEmail"],
                     "text", "collectFullName", "askEmail")

\* collectEmail whose catch leaves the step at verifyCode
CollectEmailKeepsStep(u, s, t, code, webhookOk) ==
  LET email == ToLowerCase(Trim(t)) IN
  IF ~EmailRegex(email)
    THEN SessionOnly(u, s, "text", "collectEmail", "invalidEmail")
  ELSE IF EmailUsed(email)
    THEN SessionOnly(u, s, "text", "collectEmail", "emailUsed")
  ELSE LET s1 == [s EXCEPT !.email = email, !.verificationCode = code,
                           !.step = "verifyCode"]
       IN SessionOnly(u, s1, "text", "collectEmail",
                      IF webhookOk THEN "askCode" ELSE "webhookFailed")

\* handleRegistration, case 'collectEmail'; webhookOk: the email webhook's answer
CollectEmail(u, s, t, code, webhookOk) ==
  LET email == ToLowerCase(Trim(t)) IN
  IF ~EmailRegex(email)
    THEN SessionOnly(u, s, "text", "collectEmail", "invalidEmail")
  ELSE IF EmailUsed(email)
    THEN SessionOnly(u, s, "text", "collectEmail", "emailUsed")
  ELSE LET s1 == [s EXCEPT !.email = email, !.verificationCode = code,
                           !.step = "verifyCode"]
       IN IF webhookOk
            THEN SessionOnly(u, s1, "text", "collectEmail", "askCode")
            ELSE SessionOnly(u, [s1 EXCEPT !.step = NULL],
                             "text", "collectEmail", "webhookFailed")

\* prisma.users.create: the row it inserts
NewUserRow(s) ==
  [userId |-> s.userId, fullName |-> s.fullName, email |-> s.email,
   admin |-> FALSE, verified |-> FALSE]

\* verifyCode without the comparison: any text registers
VerifyCodeAnyText(u, s, t) ==
  IF HasUser(s.userId)
    THEN SessionOnly(u, [s EXCEPT !.step = NULL], "text", "verifyCode", "registerError")
  ELSE /\ users' = users \cup {NewUserRow(s)}
       /\ session' = [session EXCEPT ![u] = [s EXCEPT !.step = NULL,
                                                      !.persistentUser = "yes"]]
       /\ last' = Did(u, "text", "verifyCode", "registered")
       /\ UNCHANGED <<subs, leaveReqs, payments, balance, now, storevars, inflight, nextRef, pc, joinLog, fetching, sweeping, dispatch, subcategoriesMap>>

\* handleRegistration, case 'verifyCode'
VerifyCode(u, s, t) ==
  IF Trim(t) # s.verificationCode
    THEN SessionOnly(u, s, "text", "verifyCode", "incorrectCode")
  ELSE IF HasUser(s.userId)
    \* users_userId_key rejects the insert
    THEN SessionOnly(u, [s EXCEPT !.step = NULL], "text", "verifyCode", "registerError")
  ELSE /\ users' = users \cup {NewUserRow(s)}
       /\ session' = [session EXCEPT ![u] = [s EXCEPT !.step = NULL,
                                                      !.persistentUser = "yes"]]
       /\ last' = Did(u, "text", "verifyCode", "registered")
       /\ UNCHANGED <<subs, leaveReqs, payments, balance, now, storevars, inflight, nextRef, pc, joinLog, fetching, sweeping, dispatch, subcategoriesMap>>

\* handleRegistration, case 'editFullName'
EditFullName(u, s, t) ==
  IF SplitLength(Trim(t)) < 2
    THEN SessionOnly(u, s, "text", "editFullName", "invalidFullName")
  ELSE IF ~HasUser(s.userId)
    THEN SessionOnly(u, s, "text", "editFullName", "updateError")
  ELSE /\ users' = (users \ UserRows(s.userId))
                     \cup {[UserOf(s.userId) EXCEPT !.fullName = Trim(t)]}
       /\ session' = [session EXCEPT ![u] = [s EXCEPT !.fullName = Trim(t),
                                                      !.firstName = SplitFirst(Trim(t)),
                                                      !.step = NULL]]
       /\ last' = Did(u, "text", "editFullName", "nameUpdated")
       /\ UNCHANGED <<subs, leaveReqs, payments, balance, now, storevars, inflight, nextRef, pc, joinLog, fetching, sweeping, dispatch, subcategoriesMap>>

\* handleRegistration, case 'editEmail'
EditEmail(u, s, t, code, webhookOk) ==
  LET newEmail == ToLowerCase(Trim(t)) IN
  IF ~EmailRegex(newEmail)
    THEN SessionOnly(u, s, "text", "editEmail", "invalidEmail")
  ELSE IF EmailUsed(newEmail)
    THEN SessionOnly(u, s, "text", "editEmail", "emailUsed")
  ELSE LET s1 == [s EXCEPT !.newEmail = newEmail, !.verificationCode = code,
                           !.step = "verifyNewEmail"]
       IN SessionOnly(u, s1, "text", "editEmail",
                      IF webhookOk THEN "askCode" ELSE "editError")

\* sub.crew.map(email => (email === oldEmail ? verifiedNewEmail : email))
ReplaceInCrew(crew, old, new) ==
  [i \in 1..Len(crew) |-> IF crew[i] = old THEN new ELSE crew[i]]

\* handleRegistration, case 'verifyNewEmail'
VerifyNewEmail(u, s, t) ==
  IF Trim(t) # s.verificationCode
    THEN SessionOnly(u, s, "text", "verifyNewEmail", "incorrectCode")
  ELSE IF ~HasUser(s.userId)
    \* the transaction fails on the users update and changes nothing
    THEN SessionOnly(u, s, "text", "verifyNewEmail", "updateError")
  ELSE /\ subs' = {IF InCrew(r.crew, s.email)
                     THEN [r EXCEPT !.crew = ReplaceInCrew(r.crew, s.email, s.newEmail)]
                     ELSE r : r \in subs}
       /\ users' = (users \ UserRows(s.userId))
                     \cup {[UserOf(s.userId) EXCEPT !.email = s.newEmail]}
       /\ session' = [session EXCEPT ![u] = [s EXCEPT !.email = s.newEmail,
                                                      !.step = NULL,
                                                      !.newEmail = NullT,
                                                      !.verificationCode = NullT]]
       /\ last' = Did(u, "text", "verifyNewEmail", "emailUpdated")
       /\ UNCHANGED <<leaveReqs, payments, balance, now, storevars, inflight, nextRef, pc, joinLog, fetching, sweeping, dispatch, subcategoriesMap>>

\* handleRegistration: the switch on ctx.session.step
handleRegistration(u, s, t, code, webhookOk) ==
  CASE s.step = "collectFullName" -> CollectFullName(u, s, t)
    [] s.step = "collectEmail" -> CollectEmail(u, s, t, code, webhookOk)
    [] s.step = "verifyCode" -> VerifyCode(u, s, t)
    [] s.step = "editFullName" -> EditFullName(u, s, t)
    [] s.step = "editEmail" -> EditEmail(u, s, t, code, webhookOk)
    [] s.step = "verifyNewEmail" -> VerifyNewEmail(u, s, t)


----------------------------------------------------------------------------
(* The listing wizard, src/src/bot/index.js and workflows/add-subscription.js *)

IsDigit(c) == c \in {"0", "1", "2", "3", "4", "5", "6", "7", "8", "9"}

DigitVal(c) ==
  CASE c = "0" -> 0 [] c = "1" -> 1 [] c = "2" -> 2 [] c = "3" -> 3 [] c = "4" -> 4
    [] c = "5" -> 5 [] c = "6" -> 6 [] c = "7" -> 7 [] c = "8" -> 8 [] c = "9" -> 9

\* the value of the longest prefix of digits of t, after acc
RECURSIVE DigitsPrefix(_, _)
DigitsPrefix(t, acc) ==
  IF t # <<>> /\ IsDigit(Head(t)) THEN DigitsPrefix(Tail(t), 10 * acc + DigitVal(Head(t)))
  ELSE acc

\* parseInt(t): leading blanks, an optional sign, then digits; NaN without a digit
ParseInt(t) ==
  LET a == TrimLeft(t)
      signed == a # <<>> /\ Head(a) \in {"-", "+"}
      b == IF signed THEN Tail(a) ELSE a
  IN IF b = <<>> \/ ~IsDigit(Head(b)) THEN [nan |-> TRUE, v |-> 0]
     ELSE [nan |-> FALSE,
           v |-> IF signed /\ Head(a) = "-" THEN 0 - DigitsPrefix(b, 0)
                 ELSE DigitsPrefix(b, 0)]

DigitChar(d) ==
  CASE d = 0 -> "0" [] d = 1 -> "1" [] d = 2 -> "2" [] d = 3 -> "3" [] d = 4 -> "4"
    [] d = 5 -> "5" [] d = 6 -> "6" [] d = 7 -> "7" [] d = 8 -> "8" [] d = 9 -> "9"

\* n.toString() of an integer n >= 0
RECURSIVE toString(_)
toString(n) == IF n < 10 THEN <<DigitChar(n)>> ELSE Append(toString(n \div 10), DigitChar(n % 10))

\* /^\+\d{10,15}$/.test(t)
WhatsAppRegex(t) ==
  /\ Len(t) >= 11 /\ Len(t) <= 16
  /\ t[1] = "+"
  /\ \A i \in 2..Len(t) : IsDigit(t[i])

\* subscriptionPrices, utils/subscription-prices.js, in declaration order
subscriptionPrices ==
  << <<"Netflix Standard", 1700>>, <<"Netflix Premium", 2500>>,
     <<"Hulu + Live TV (2 Users Max)", 60000>>,
     <<"Hulu + Live TV with Unlimited Screens (3+ Users)", 69750>>,
     <<"Disney+ Premium", 5700>>, <<"Amazon Prime Video Household Sharing", 800>>,
     <<"HBO Max Ad-Free", 12500>>, <<"Apple TV+ Family Sharing", 300>>,
     <<"Paramount+ Premium", 9000>>, <<"Peacock Premium", 6000>>,
     <<"Crunchyroll Mega Fan", 750>>, <<"Crunchyroll Ultimate Fan", 9000>>,
     <<"Sling TV Blue", 20000>>, <<"Sling Orange & Blue", 27700>>,
     <<"YouTube Premium Family", 600>>, <<"Spotify Family", 750>>,
     <<"Apple Music Family", 300>>, <<"Amazon Music Unlimited Family", 4400>>,
     <<"YouTube Music Family", 570>>, <<"Tidal HiFi Family", 400>>,
     <<"Deezer Family", 370>>, <<"Pandora Premium Family", 4400>>,
     <<"LinkedIn Learning Teams (multi-user)", 45000>>,
     <<"Skillshare Teams (multi-user)", 20000>>,
     <<"Peloton All-Access (household)", 5000>>, <<"Calm Family Plan", 30000>>,
     <<"Headspace Family Plan", 30000>>, <<"Apple Fitness+ Family", 250>>,
     <<"Xbox Game Pass Friends & Family", 5000>>,
     <<"PlayStation Plus (Family accounts)", 500>>,
     <<"Nintendo Switch Online Family", 650>>, <<"Google One Family", 380>>,
     <<"Microsoft 365 Family", 700>>, <<"Dropbox Family", 1000>>,
     <<"iCloud+ Family Sharing", 200>>, <<"NYT Household Sharing", 1600>>,
     <<"Audible Household Library", 1250>>, <<"Scribd Family", 600>>,
     <<"Kindle Unlimited Household Sharing", 900>>,
     <<"Canva for Teams (multi-user)", 4000>>,
     <<"Adobe Creative Cloud Teams (multi-user)", 10000>>,
     <<"ABCmouse", 750>>, <<"Epic!", 680>> >>

\* the plan whose planIdMap entry is `P${index}`, index counted from 0
PlanIndexes == 0..(Len(subscriptionPrices) - 1)
PlanName(index) == subscriptionPrices[index + 1][1]
PlanPrice(index) == subscriptionPrices[index + 1][2]

\* subscriptionPrices[plan] for a plan name
PriceOf(plan) ==
  LET i == CHOOSE i \in PlanIndexes : PlanName(i) = plan IN PlanPrice(i)

IsPlan(plan) == \E i \in PlanIndexes : PlanName(i) = plan

\* the fee bot.action(/^PLAN_ID_(.+)$/) adds to the catalog price
ServiceFee == 200

\* subcategoriesMap, the categories the model selects from
Categories == {"Music"}
Subcategories(category) == IF category = "Music" THEN {"Spotify", "Deezer"} ELSE {}

\* the arrays of subcategoriesMap as the module is loaded
StaticCatalog == [category \in Categories |-> <<"Spotify", "Deezer">>]

\* the button handleSubCategorySelection adds below the subcategories
ReturnToCategory == "Return to Category"

\* addSubscriptionWorkflow
addSubscriptionWorkflow(s) ==
  [s EXCEPT !.step = NULL, !.subCat = NULL, !.subSubCat = NULL, !.subPlan = NULL,
            !.subAmount = NoInt]

\* bot.action('ADD_SUB')
AddSub(u, s) ==
  IF s.admin # "true"
    THEN SessionOnly(u, s, "ADD_SUB", "ADD_SUB", "adminsOnly")
    ELSE SessionOnly(u, addSubscriptionWorkflow(clearListingSession(s)),
                     "ADD_SUB", "ADD_SUB", "askCategory")

\* bot.action(/^CATEGORY_(.+)$/) -> handleSubCategorySelection
CategoryAction(u, s, category) ==
  IF category \notin Categories
    THEN SessionOnly(u, s, "CATEGORY", "handleSubCategorySelection", "invalidCategory")
    ELSE \* const options = subcategoriesMap[category]; options.push('Return to Category'):
         \* options is the array of the catalog itself
         /\ session' = [session EXCEPT ![u] = [s EXCEPT !.subCat = category,
                                                        !.subSubCat = NULL,
                                                        !.subPlan = NULL,
                                                        !.subAmount = NoInt]]
         /\ subcategoriesMap' =
              [subcategoriesMap EXCEPT ![category] = Append(@, ReturnToCategory)]
         /\ last' = Did(u, "CATEGORY", "handleSubCategorySelection", "askSubcategory")
         /\ UNCHANGED <<dbvars, now, storevars, inflight, nextRef, pc, joinLog, fetching,
                        sweeping, dispatch>>

\* plan.toLowerCase().includes(subSubCat.toLowerCase()), on the names of the model
PlansOf(subSubCat) ==
  CASE subSubCat = "Spotify" -> {"Spotify Family"}
    [] subSubCat = "Deezer" -> {"Deezer Family"}
    [] OTHER -> {}

\* bot.action(/^SUBCATEGORY_(.+)$/) -> handlePlanSelection
SubcategoryAction(u, s0, subSubCat) ==
  LET s == [s0 EXCEPT !.subSubCat = subSubCat, !.subPlan = NULL, !.subAmount = NoInt] IN
  IF PlansOf(subSubCat) = {}
    THEN SessionOnly(u, addSubscriptionWorkflow(s),
                     "SUBCATEGORY", "handlePlanSelection", "noPlans")
    ELSE SessionOnly(u, s, "SUBCATEGORY", "handlePlanSelection", "askPlan")

\* the plan stored at its catalog price, the fee left out
PlanSelectedNoFee(s, planId) ==
  [s EXCEPT !.subPlan = PlanName(planId),
            !.subAmount = PlanPrice(planId),
            !.step = "enterSlot"]

\* bot.action(/^PLAN_ID_(.+)$/): what it stores for the plan of planId
PlanSelected(s, planId) ==
  [s EXCEPT !.subPlan = PlanName(planId),
            !.subAmount = PlanPrice(planId) + ServiceFee,
            !.step = "enterSlot"]

\* bot.action(/^PLAN_ID_(.+)$/); planId is the index after the P, -1 for any other id
PlanIdAction(u, s, planId) ==
  IF planId \notin PlanIndexes \/ PlanPrice(planId) = 0
    THEN SessionOnly(u, s, "PLAN_ID", "PLAN_ID", "planNotFound")
    ELSE SessionOnly(u, PlanSelected(s, planId), "PLAN_ID", "PLAN_ID", "askSlots")

\* bot.action('SHARE_LOGIN')
ShareLogin(u, s) ==
  SessionOnly(u, [s EXCEPT !.shareType = "login", !.step = "enterEmail"],
              "SHARE_LOGIN", "SHARE_LOGIN", "askLoginEmail")

\* bot.action('SHARE_OTP')
ShareOtp(u, s) ==
  SessionOnly(u, [s EXCEPT !.shareType = "otp", !.step = "enterWhatsApp"],
              "SHARE_OTP", "SHARE_OTP", "askWhatsApp")

\* handleDurationSelection(ctx) as index.js calls it: duration is undefined, so
\* parseInt gives NaN and the handler answers before it generates anything
handleDurationSelectionUndefined(u, s) ==
  SessionOnly(u, s, "text", "handleDurationSelection", "invalidDuration")


\* handleSubscriptionListing, case 'enterSlot'
EnterSlot(u, s, t) ==
  LET slot == ParseInt(Trim(t)) IN
  IF slot.nan \/ slot.v <= 0
    THEN SessionOnly(u, s, "text", "enterSlot", "invalidSlots")
    ELSE SessionOnly(u, [s EXCEPT !.subSlot = slot.v, !.step = "shareType"],
                     "text", "enterSlot", "askShareType")

\* handleSubscriptionListing, case 'enterEmail'
EnterEmail(u, s, t) ==
  SessionOnly(u, [s EXCEPT !.subEmail = Trim(t), !.step = "enterPassword"],
              "text", "enterEmail", "askPassword")

\* handleSubscriptionListing, case 'enterPassword'
EnterPassword(u, s, t) ==
  handleDurationSelectionUndefined(u, [s EXCEPT !.subPassword = Trim(t),
                                                !.step = "selectDuration"])

\* handleSubscriptionListing, case 'enterWhatsApp'
EnterWhatsApp(u, s, t) ==
  IF ~WhatsAppRegex(Trim(t))
    THEN SessionOnly(u, s, "text", "enterWhatsApp", "invalidWhatsApp")
    ELSE handleDurationSelectionUndefined(u,
           [s EXCEPT !.subEmail = Trim(t), !.subPassword = <<>>,
                     !.whatsappNo = Trim(t), !.step = "selectDuration"])

\* the ids 'Q_' + five random characters can take in the model
SubIds == {"Q_A", "Q_B"}

\* generateShortSubId
maxAttempts == 10

\* bot.action(/^DURATION_(\d+)$/) up to its call of generateShortSubId
DurationAction(u, s, duration) ==
  IF duration < 1 \/ duration > 12
    THEN SessionOnly(u, s, "DURATION", "DURATION", "invalidDuration")
    ELSE /\ session' = [session EXCEPT ![u] = [s EXCEPT !.subDuration = duration]]
         /\ pc' = [pc EXCEPT ![u] = 1]
         /\ last' = Did(u, "DURATION", "generateShortSubId", "none")
         /\ UNCHANGED <<dbvars, now, storevars, inflight, nextRef, joinLog, fetching, sweeping, dispatch, subcategoriesMap>>

\* a generator that keeps the tenth id although a listing uses it
GenerateAttemptKeepsLast(u, subId, persisted) ==
  /\ pc[u] > 0
  /\ IF ~HasSub(subId) \/ pc[u] >= maxAttempts
       THEN /\ session' = [session EXCEPT ![u] = [@ EXCEPT !.subId = subId,
                                                           !.step = "confirmSubscription"]]
            /\ pc' = [pc EXCEPT ![u] = 0]
            /\ last' = Did(u, "DURATION", "DURATION", "confirmScreen")
       ELSE /\ pc' = [pc EXCEPT ![u] = @ + 1]
            /\ last' = Did(u, "DURATION", "generateShortSubId", "none")
            /\ UNCHANGED session
  /\ UNCHANGED <<dbvars, now, storevars, inflight, nextRef, joinLog, fetching, sweeping, dispatch, subcategoriesMap>>

\* one iteration of the loop of generateShortSubId, drawing subId, and, when the
\* loop ends, the rest of the DURATION handler or the error it throws.  persisted:
\* whether the session store kept the fields a throwing handler had set.
GenerateAttempt(u, subId, persisted) ==
  /\ pc[u] > 0
  /\ IF ~HasSub(subId)
       THEN /\ session' = [session EXCEPT ![u] = [@ EXCEPT !.subId = subId,
                                                           !.step = "confirmSubscription"]]
            /\ pc' = [pc EXCEPT ![u] = 0]
            /\ last' = Did(u, "DURATION", "DURATION", "confirmScreen")
     ELSE IF pc[u] < maxAttempts
       THEN /\ pc' = [pc EXCEPT ![u] = @ + 1]
            /\ last' = Did(u, "DURATION", "generateShortSubId", "none")
            /\ UNCHANGED session
     ELSE /\ pc' = [pc EXCEPT ![u] = 0]
          /\ session' = [session EXCEPT ![u] = IF persisted THEN @
                                               ELSE [@ EXCEPT !.subDuration = NoInt]]
          /\ last' = Did(u, "DURATION", "generateShortSubId", "unexpectedError")
  /\ UNCHANGED <<dbvars, now, storevars, inflight, nextRef, joinLog, fetching, sweeping, dispatch, subcategoriesMap>>

\* prisma.subscription.create accepts the data of the session
CanCreateSub(s) ==
  /\ s.userId # NULL /\ s.subPlan # NULL /\ s.subSlot # NoInt
  /\ s.subDuration # NoInt /\ s.subAmount # NoInt /\ s.subEmail # NullT
  /\ s.subId # NULL /\ s.subCat # NULL /\ s.subSubCat # NULL
  /\ ~HasSub(s.subId)

\* the row bot.action('CONFIRM_SUBSCRIPTION') creates
NewSubRow(s) ==
  [subId |-> s.subId, userId |-> s.userId, subPlan |-> s.subPlan,
   subSlot |-> s.subSlot, subRemSlot |-> s.subSlot, subDuration |-> toString(s.subDuration),
   subAmount |-> toString(s.subAmount), subEmail |-> s.subEmail,
   subPassword |-> IF s.subPassword = NullT THEN <<>> ELSE s.subPassword,
   status |-> "live", subCategory |-> s.subCat, subSubCategory |-> s.subSubCat,
   crew |-> <<>>, shareType |-> IF s.shareType = NULL THEN "login" ELSE s.shareType,
   createdAt |-> now]

\* a Confirm that leaves the wizard fields in the session after it created the listing
ConfirmSubscriptionKeepsSession(u, s) ==
  IF ~CanCreateSub(s)
    THEN SessionOnly(u, clearListingSession(s),
                     "CONFIRM_SUBSCRIPTION", "CONFIRM_SUBSCRIPTION", "saveError")
    ELSE /\ subs' = subs \cup {NewSubRow(s)}
         /\ session' = [session EXCEPT ![u] = s]
         /\ last' = Did(u, "CONFIRM_SUBSCRIPTION", "CONFIRM_SUBSCRIPTION", "listed")
         /\ UNCHANGED <<users, leaveReqs, payments, balance, now, storevars, inflight, nextRef, pc, joinLog, fetching, sweeping, dispatch, subcategoriesMap>>

\* bot.action('CONFIRM_SUBSCRIPTION')
ConfirmSubscription(u, s) ==
  IF ~CanCreateSub(s)
    THEN SessionOnly(u, clearListingSession(s),
                     "CONFIRM_SUBSCRIPTION", "CONFIRM_SUBSCRIPTION", "saveError")
    ELSE /\ subs' = subs \cup {NewSubRow(s)}
         /\ session' = [session EXCEPT ![u] = clearListingSession(s)]
         /\ last' = Did(u, "CONFIRM_SUBSCRIPTION", "CONFIRM_SUBSCRIPTION", "listed")
         /\ UNCHANGED <<users, leaveReqs, payments, balance, now, storevars, inflight, nextRef, pc, joinLog, fetching, sweeping, dispatch, subcategoriesMap>>

\* bot.action('CANCEL_SUBSCRIPTION', ensureRegistered, ...)
CancelSubscription(u, s) ==
  ensureRegistered(u, s, "CANCEL_SUBSCRIPTION",
    LAMBDA r : SessionOnly(u, clearListingSession(r),
                           "CANCEL_SUBSCRIPTION", "CANCEL_SUBSCRIPTION", "cancelled"))


----------------------------------------------------------------------------
(* Joining a listing, src/src/bot/workflows/browse-subscriptions.js *)

\* browseSubscriptionsWorkflow
browseSubscriptionsWorkflow(s) ==
  [s EXCEPT !.step = "browseSubscriptions", !.browsePage = 0, !.browseSort = "newest"]

\* a where clause that forgets the status
AvailableAnyStatus(r) == r.subRemSlot > 0

\* where: { status: 'live', subRemSlot: { gt: 0 } }
Available(r) == r.status = "live" /\ r.subRemSlot > 0

\* browseSubscriptionsWorkflow: the reply, by the categories that have a listing to offer
BrowseReply ==
  IF \E r \in subs : Available(r) /\ r.subCategory \in Categories
    THEN "askBrowseCategory" ELSE "noneAvailable"

\* bot.action('BROWSE')
Browse(u, s) ==
  SessionOnly(u, browseSubscriptionsWorkflow(clearListingSession(s)),
              "BROWSE", "browseSubscriptionsWorkflow", BrowseReply)

\* handleBrowseCategorySelection, from bot.action(/^BROWSE_CAT_(.+)$/)
handleBrowseCategorySelection(u, s, category) ==
  IF category \notin Categories
    THEN SessionOnly(u, s, "BROWSE_CAT", "handleBrowseCategorySelection", "invalidCategory")
    ELSE SessionOnly(u, [s EXCEPT !.browseCategory = category],
                     "BROWSE_CAT", "handleBrowseCategorySelection", "askBrowseSubcategory")

\* the Select button of the listing showSubscriptions shows
SelectButton(subId) ==
  CASE subId = "Q_A" -> "SELECT_SUB_Q_A"
    [] subId = "Q_B" -> "SELECT_SUB_Q_B"
    [] OTHER -> "SELECT_SUB"

\* the rows of showSubscriptions' where clause
Matching(subcategory) == {r \in subs : r.subSubCategory = subcategory /\ Available(r)}

\* orderBy createdAt, desc unless browseSort is 'oldest': x comes before r
Before(x, r, sort) ==
  IF sort = "oldest" THEN x.createdAt < r.createdAt ELSE x.createdAt > r.createdAt

\* findMany({ where, orderBy, skip: page, take: 1 }): the rows that can be at position
\* page, rows of equal createdAt being in any order
AtPage(rows, page, sort) ==
  {r \in rows :
     /\ Cardinality({x \in rows : Before(x, r, sort)}) <= page
     /\ page < Cardinality({x \in rows : Before(x, r, sort) \/ x.createdAt = r.createdAt})}

\* showSubscriptions: nothing found, or one listing shown, from page 0 again when the
\* page of the session is past the last one
showSubscriptions(u, s, ev) ==
  LET rows == Matching(s.browseSubcategory)
      page == IF s.browsePage < Cardinality(rows) THEN s.browsePage ELSE 0
  IN IF rows = {}
       THEN SessionOnly(u, s, ev, "showSubscriptions", "noneFound")
       ELSE \E r \in AtPage(rows, page, s.browseSort) :
              SessionOnly(u, [s EXCEPT !.browsePage = page],
                          ev, "showSubscriptions", SelectButton(r.subId))

\* handleBrowseSubcategorySelection, from bot.action(/^BROWSE_SUBCAT_(.+)$/)
handleBrowseSubcategorySelection(u, s, ev, subcategory) ==
  showSubscriptions(u, [s EXCEPT !.browseSubcategory = subcategory,
                                 !.browsePage = IF @ = NoInt THEN 0 ELSE @], ev)

\* the pages BROWSE_NEXT turns in the model
MaxPage == 2

\* bot.action('BROWSE_NEXT'); the button is shown by showSubscriptions, which left a
\* page number in the session, and a page cleared since then counts as 0
BrowseNext(u, s) ==
  /\ s.browsePage < MaxPage
  /\ handleBrowseSubcategorySelection(u,
        [s EXCEPT !.browsePage = (IF @ = NoInt THEN 0 ELSE @) + 1],
        "BROWSE_NEXT", s.browseSubcategory)

\* bot.action('SORT_OLDEST')
SortOldest(u, s) ==
  handleBrowseSubcategorySelection(u, [s EXCEPT !.browseSort = "oldest", !.browsePage = 0],
                                   "SORT_OLDEST", s.browseSubcategory)

\* handleSubscriptionSelection, from bot.action(/^SELECT_SUB_(.+)$/)
handleSubscriptionSelection(u, s, subId) ==
  IF ~HasSub(subId) \/ SubOf(subId).status # "live" \/ SubOf(subId).subRemSlot <= 0
    THEN SessionOnly(u, s, "SELECT_SUB", "handleSubscriptionSelection", "unavailable")
    ELSE SessionOnly(u, [s EXCEPT !.selectedSubId = subId],
                     "SELECT_SUB", "handleSubscriptionSelection", "details")

\* the payment collaborator hands out at most MaxRefs references
MaxRefs == 3

\* the smallest amount initiatePayment accepts
MinAmount == 100

\* initiatePayment, from bot.action('PAY_SUB'); outcome: what fetchWithRetry returns
initiatePayment(u, s, ev, outcome) ==
  IF ~HasSub(s.selectedSubId) \/ ~HasUser(s.userId)
    THEN SessionOnly(u, s, ev, "initiatePayment", "paymentError")
  ELSE IF ParseInt(SubOf(s.selectedSubId).subAmount).nan
          \/ ParseInt(SubOf(s.selectedSubId).subAmount).v < MinAmount
    THEN SessionOnly(u, s, ev, "initiatePayment", "invalidAmount")
  ELSE IF ~EmailRegex(UserOf(s.userId).email)
    THEN SessionOnly(u, s, ev, "initiatePayment", "invalidUserEmail")
  ELSE IF outcome = "failed"
    THEN SessionOnly(u, s, ev, "initiatePayment", "initiateFailed")
  ELSE IF outcome = "noReference"
    THEN SessionOnly(u, [s EXCEPT !.authUrl = "url", !.transferReference = 0],
                     ev, "initiatePayment", "payLink")
  ELSE /\ nextRef <= MaxRefs
       /\ session' = [session EXCEPT ![u] = [s EXCEPT !.authUrl = "url",
                                                      !.transferReference = nextRef]]
       /\ nextRef' = nextRef + 1
       /\ last' = Did(u, ev, "initiatePayment", "payLink")
       /\ UNCHANGED <<dbvars, now, storevars, inflight, pc, joinLog, fetching, sweeping, dispatch, subcategoriesMap>>

\* the statuses the collaborator answers a verification with
PendingStatuses == {"pending", "failed", "ongoing"}
Statuses == PendingStatuses \cup {"success", "reversed", ""}

\* prisma.balance.upsert: increment the row, or create it with the amount
Upsert(b, uid, amount) ==
  [b EXCEPT ![uid] = IF @ = NoInt THEN amount ELSE @ + amount]

\* the join side effect of verifyPayment on a subscription row
JoinRow(r, email) == [r EXCEPT !.crew = Append(@, email), !.subRemSlot = @ - 1]

\* verifyPayment that takes an unrecognized status for a failed payment
verifyPaymentUnknownFails(u, s, status) ==
  IF s.transferReference \in {NoInt, 0} \/ s.selectedSubId = NULL
    THEN SessionOnly(u, s, "VERIFY_PAYMENT", "verifyPayment", "invalidRequest")
  ELSE IF status \in PendingStatuses
    THEN SessionOnly(u, s, "VERIFY_PAYMENT", "verifyPayment", "stillPending")
  ELSE IF status # "success"
    THEN SessionOnly(u, [s EXCEPT !.step = NULL, !.authUrl = NULL,
                                  !.transferReference = NoInt, !.selectedSubId = NULL],
                     "VERIFY_PAYMENT", "verifyPayment", "verificationFailed")
  ELSE IF ~HasSub(s.selectedSubId) \/ ~HasUser(s.userId)
    THEN SessionOnly(u, s, "VERIFY_PAYMENT", "verifyPayment", "verificationFailed")
  ELSE LET sub == SubOf(s.selectedSubId)
           user == UserOf(s.userId)
       IN /\ subs' = (subs \ {sub}) \cup {JoinRow(sub, user.email)}
          /\ payments' = Append(payments,
                                [userId |-> user.userId, subId |-> sub.subId,
                                 subPlan |-> sub.subPlan, amount |-> ParseInt(sub.subAmount).v,
                                 reference |-> s.transferReference,
                                 status |-> "success"])
          /\ balance' = Upsert(balance, sub.userId, ParseInt(sub.subAmount).v)
          /\ session' = [session EXCEPT ![u] = [s EXCEPT !.step = NULL,
                                                         !.authUrl = NULL,
                                                         !.transferReference = NoInt,
                                                         !.selectedSubId = NULL]]
          /\ joinLog' = Append(joinLog, [reference |-> s.transferReference,
                                         subId |-> sub.subId, email |-> user.email,
                                         owner |-> sub.userId])
          /\ last' = Did(u, "VERIFY_PAYMENT", "verifyPayment", "joined")
          /\ UNCHANGED <<users, leaveReqs, now, storevars, inflight, nextRef, pc, fetching, sweeping, dispatch, subcategoriesMap>>

\* verifyPayment that leaves the reference in the session after a success
verifyPaymentKeepsReference(u, s, status) ==
  IF s.transferReference \in {NoInt, 0} \/ s.selectedSubId = NULL
    THEN SessionOnly(u, s, "VERIFY_PAYMENT", "verifyPayment", "invalidRequest")
  ELSE IF status \in PendingStatuses
    THEN SessionOnly(u, s, "VERIFY_PAYMENT", "verifyPayment", "stillPending")
  ELSE IF status # "success"
    THEN SessionOnly(u, s, "VERIFY_PAYMENT", "verifyPayment", "notConfirmed")
  ELSE IF ~HasSub(s.selectedSubId) \/ ~HasUser(s.userId)
    THEN SessionOnly(u, s, "VERIFY_PAYMENT", "verifyPayment", "verificationFailed")
  ELSE LET sub == SubOf(s.selectedSubId)
           user == UserOf(s.userId)
       IN /\ subs' = (subs \ {sub}) \cup {JoinRow(sub, user.email)}
          /\ payments' = Append(payments,
                                [userId |-> user.userId, subId |-> sub.subId,
                                 subPlan |-> sub.subPlan, amount |-> ParseInt(sub.subAmount).v,
                                 reference |-> s.transferReference,
                                 status |-> "success"])
          /\ balance' = Upsert(balance, sub.userId, ParseInt(sub.subAmount).v)
          /\ session' = [session EXCEPT ![u] = s]
          /\ joinLog' = Append(joinLog, [reference |-> s.transferReference,
                                         subId |-> sub.subId, email |-> user.email,
                                         owner |-> sub.userId])
          /\ last' = Did(u, "VERIFY_PAYMENT", "verifyPayment", "joined")
          /\ UNCHANGED <<users, leaveReqs, now, storevars, inflight, nextRef, pc, fetching, sweeping, dispatch, subcategoriesMap>>

\* verifyPayment, from bot.action('VERIFY_PAYMENT'); status: the collaborator's answer
verifyPayment(u, s, status) ==
  IF s.transferReference \in {NoInt, 0} \/ s.selectedSubId = NULL
    THEN SessionOnly(u, s, "VERIFY_PAYMENT", "verifyPayment", "invalidRequest")
  ELSE IF status \in PendingStatuses
    THEN SessionOnly(u, s, "VERIFY_PAYMENT", "verifyPayment", "stillPending")
  ELSE IF status # "success"
    THEN SessionOnly(u, s, "VERIFY_PAYMENT", "verifyPayment", "notConfirmed")
  ELSE IF ~HasSub(s.selectedSubId) \/ ~HasUser(s.userId)
    THEN SessionOnly(u, s, "VERIFY_PAYMENT", "verifyPayment", "verificationFailed")
  ELSE LET sub == SubOf(s.selectedSubId)
           user == UserOf(s.userId)
       IN /\ subs' = (subs \ {sub}) \cup {JoinRow(sub, user.email)}
          /\ payments' = Append(payments,
                                [userId |-> user.userId, subId |-> sub.subId,
                                 subPlan |-> sub.subPlan, amount |-> ParseInt(sub.subAmount).v,
                                 reference |-> s.transferReference,
                                 status |-> "success"])
          /\ balance' = Upsert(balance, sub.userId, ParseInt(sub.subAmount).v)
          /\ session' = [session EXCEPT ![u] = [s EXCEPT !.step = NULL,
                                                         !.authUrl = NULL,
                                                         !.transferReference = NoInt,
                                                         !.selectedSubId = NULL]]
          /\ joinLog' = Append(joinLog, [reference |-> s.transferReference,
                                         subId |-> sub.subId, email |-> user.email,
                                         owner |-> sub.userId])
          /\ last' = Did(u, "VERIFY_PAYMENT", "verifyPayment", "joined")
          /\ UNCHANGED <<users, leaveReqs, now, storevars, inflight, nextRef, pc, fetching, sweeping, dispatch, subcategoriesMap>>

\* cancelPayment that forgets to discard the reference
cancelPaymentKeepsReference(u, s) ==
  SessionOnly(u, [s EXCEPT !.step = NULL, !.authUrl = NULL, !.selectedSubId = NULL],
              "CANCEL_PAYMENT", "cancelPayment", "paymentCancelled")

\* cancelPayment, from bot.action('CANCEL_PAYMENT')
cancelPayment(u, s) ==
  SessionOnly(u, [s EXCEPT !.step = NULL, !.authUrl = NULL,
                           !.transferReference = NoInt, !.selectedSubId = NULL],
              "CANCEL_PAYMENT", "cancelPayment", "paymentCancelled")

----------------------------------------------------------------------------
(* Managing listings and memberships, workflows/my-subscriptions.js *)

\* mySubscriptionsWorkflow
mySubscriptionsWorkflow(s) == [s EXCEPT !.step = "mySubscriptions"]

\* unlistSubscription without the comparison of the owner
unlistSubscriptionAnyUser(u, s, subId, notified) ==
  IF ~HasSub(subId)
    THEN SessionOnly(u, s, "UNLIST_SUB", "unlistSubscription", "invalidSubscription")
  ELSE IF ~notified
    THEN SessionOnly(u, s, "UNLIST_SUB", "unlistSubscription", "unlistFailed")
  ELSE /\ subs' = (subs \ {SubOf(subId)})
                    \cup {[SubOf(subId) EXCEPT !.status = "pending_unlist"]}
       /\ session' = [session EXCEPT ![u] = s]
       /\ last' = Did(u, "UNLIST_SUB", "unlistSubscription", "unlistRequested")
       /\ UNCHANGED <<users, leaveReqs, payments, balance, now, storevars, inflight, nextRef, pc, joinLog, fetching, sweeping, dispatch, subcategoriesMap>>

\* unlistSubscription, from bot.action(/^UNLIST_SUB_(.+)$/); notified: whether the post
\* to the administrative chat went through
unlistSubscription(u, s, subId, notified) ==
  IF ~HasSub(subId) \/ SubOf(subId).userId # s.userId
    THEN SessionOnly(u, s, "UNLIST_SUB", "unlistSubscription", "invalidSubscription")
  ELSE IF ~notified
    THEN SessionOnly(u, s, "UNLIST_SUB", "unlistSubscription", "unlistFailed")
  ELSE /\ subs' = (subs \ {SubOf(subId)})
                    \cup {[SubOf(subId) EXCEPT !.status = "pending_unlist"]}
       /\ session' = [session EXCEPT ![u] = s]
       /\ last' = Did(u, "UNLIST_SUB", "unlistSubscription", "unlistRequested")
       /\ UNCHANGED <<users, leaveReqs, payments, balance, now, storevars, inflight, nextRef, pc, joinLog, fetching, sweeping, dispatch, subcategoriesMap>>

\* bot.action(/^UPDATE_SUB_(.+)$/) -> updateSubscription
updateSubscription(u, s, subId) ==
  IF ~HasSub(subId) \/ SubOf(subId).userId # s.userId
    THEN SessionOnly(u, s, "UPDATE_SUB", "updateSubscription", "invalidSubscription")
    ELSE SessionOnly(u, s, "UPDATE_SUB", "updateSubscription", "askWhatToUpdate")

\* bot.action(/^UPDATE_SLOTS_(.+)$/)
UpdateSlotsAction(u, s, subId) ==
  SessionOnly(u, [s EXCEPT !.updateSubId = subId, !.step = "updateSlots"],
              "UPDATE_SLOTS", "UPDATE_SLOTS", "askNewSlots")

\* bot.action(/^UPDATE_DURATION_(.+)$/)
UpdateDurationAction(u, s, subId) ==
  SessionOnly(u, [s EXCEPT !.updateSubId = subId, !.step = "updateDuration"],
              "UPDATE_DURATION", "UPDATE_DURATION", "askNewDuration")

\* bot.action(/^UPDATE_SHARE_ACCESS_(.+)$/)
UpdateShareAccessAction(u, s, subId) ==
  SessionOnly(u, [s EXCEPT !.updateSubId = subId, !.step = "updateShareAccess"],
              "UPDATE_SHARE_ACCESS", "UPDATE_SHARE_ACCESS", "askShareType")

\* handleUpdateSlots that leaves the taken slots out of subRemSlot
handleUpdateSlotsKeepsTaken(u, s, t) ==
  LET slots == ParseInt(Trim(t)) IN
  IF slots.nan \/ slots.v <= 0
    THEN SessionOnly(u, s, "text", "handleUpdateSlots", "invalidSlots")
  ELSE IF ~HasSub(s.updateSubId)
    THEN SessionOnly(u, s, "text", "handleUpdateSlots", "updateError")
  ELSE /\ subs' = (subs \ {SubOf(s.updateSubId)})
                    \cup {[SubOf(s.updateSubId) EXCEPT
                             !.subSlot = slots.v,
                             !.subRemSlot = slots.v - Len(SubOf(s.updateSubId).crew)]}
       /\ session' = [session EXCEPT ![u] = [s EXCEPT !.step = NULL,
                                                      !.updateSubId = NULL]]
       /\ last' = Did(u, "text", "handleUpdateSlots", "slotsUpdated")
       /\ UNCHANGED <<users, leaveReqs, payments, balance, now, storevars, inflight, nextRef, pc, joinLog, fetching, sweeping, dispatch, subcategoriesMap>>

\* handleUpdateSlots
handleUpdateSlots(u, s, t) ==
  LET slots == ParseInt(Trim(t)) IN
  IF slots.nan \/ slots.v <= 0
    THEN SessionOnly(u, s, "text", "handleUpdateSlots", "invalidSlots")
  ELSE IF ~HasSub(s.updateSubId)
    THEN SessionOnly(u, s, "text", "handleUpdateSlots", "updateError")
  ELSE /\ subs' = (subs \ {SubOf(s.updateSubId)})
                    \cup {[SubOf(s.updateSubId) EXCEPT !.subSlot = slots.v,
                                                       !.subRemSlot = slots.v]}
       /\ session' = [session EXCEPT ![u] = [s EXCEPT !.step = NULL,
                                                      !.updateSubId = NULL]]
       /\ last' = Did(u, "text", "handleUpdateSlots", "slotsUpdated")
       /\ UNCHANGED <<users, leaveReqs, payments, balance, now, storevars, inflight, nextRef, pc, joinLog, fetching, sweeping, dispatch, subcategoriesMap>>

\* handleUpdateDuration
handleUpdateDuration(u, s, t) ==
  LET duration == ParseInt(Trim(t)) IN
  IF duration.nan \/ duration.v < 1 \/ duration.v > 12
    THEN SessionOnly(u, s, "text", "handleUpdateDuration", "invalidDuration")
  ELSE IF ~HasSub(s.updateSubId)
    THEN SessionOnly(u, s, "text", "handleUpdateDuration", "updateError")
  ELSE /\ subs' = (subs \ {SubOf(s.updateSubId)})
                    \cup {[SubOf(s.updateSubId) EXCEPT !.subDuration = toString(duration.v)]}
       /\ session' = [session EXCEPT ![u] = [s EXCEPT !.step = NULL,
                                                      !.updateSubId = NULL]]
       /\ last' = Did(u, "text", "handleUpdateDuration", "durationUpdated")
       /\ UNCHANGED <<users, leaveReqs, payments, balance, now, storevars, inflight, nextRef, pc, joinLog, fetching, sweeping, dispatch, subcategoriesMap>>

\* the database keeps at most MaxLeaveReqs leave requests in the model
MaxLeaveReqs == 2

\* leaveSubscription that submits the request without asking
leaveSubscriptionUnconfirmed(u, s, ev, subId, confirm) ==
  IF ~HasSub(subId) \/ ~InCrew(SubOf(subId).crew, s.email)
    THEN SessionOnly(u, s, ev, "leaveSubscription", "invalidSubscription")
  ELSE IF s.userId = NULL
    THEN SessionOnly(u, s, ev, "leaveSubscription", "leaveError")
  ELSE /\ Len(leaveReqs) < MaxLeaveReqs
       /\ leaveReqs' = Append(leaveReqs,
                              [id |-> Len(leaveReqs) + 1, userId |-> s.userId,
                               subId |-> subId, status |-> "pending",
                               createdAt |-> now, cancelSeen |-> 0,
                               expiresAt |-> now + LeaveGraceDays * DayMinutes])
       /\ session' = [session EXCEPT ![u] = s]
       /\ last' = Did(u, ev, "leaveSubscription", "leaveSubmitted")
       /\ UNCHANGED <<users, subs, payments, balance, now, storevars, inflight, nextRef, pc, joinLog, fetching, sweeping, dispatch, subcategoriesMap>>

\* leaveSubscription, from bot.action LEAVE_SUB_ (confirm = FALSE) and CONFIRM_LEAVE_
leaveSubscription(u, s, ev, subId, confirm) ==
  IF ~HasSub(subId) \/ ~InCrew(SubOf(subId).crew, s.email)
    THEN SessionOnly(u, s, ev, "leaveSubscription", "invalidSubscription")
  ELSE IF ~confirm
    THEN SessionOnly(u, [s EXCEPT !.leaveSubId = subId],
                     ev, "leaveSubscription", "askConfirmLeave")
  ELSE IF s.userId = NULL
    THEN SessionOnly(u, s, ev, "leaveSubscription", "leaveError")
  ELSE /\ Len(leaveReqs) < MaxLeaveReqs
       /\ leaveReqs' = Append(leaveReqs,
                              [id |-> Len(leaveReqs) + 1, userId |-> s.userId,
                               subId |-> subId, status |-> "pending",
                               createdAt |-> now, cancelSeen |-> 0,
                               expiresAt |-> now + LeaveGraceDays * DayMinutes])
       /\ session' = [session EXCEPT ![u] = s]
       /\ last' = Did(u, ev, "leaveSubscription", "leaveSubmitted")
       /\ UNCHANGED <<users, subs, payments, balance, now, storevars, inflight, nextRef, pc, joinLog, fetching, sweeping, dispatch, subcategoriesMap>>

\* the requests cancelLeaveRequest's findFirst may return
PendingLeaves(uid, subId) ==
  {i \in 1..Len(leaveReqs) : /\ leaveReqs[i].userId = uid
                             /\ leaveReqs[i].subId = subId
                             /\ leaveReqs[i].status = "pending"}

\* cancelLeaveRequest, from bot.action(/^CANCEL_LEAVE_(.+)$/); the table has no
\* order of its own, so findFirst returns any of the matching rows.  cancelSeen is
\* history: how many requests existed when the row was cancelled.
cancelLeaveRequest(u, s, subId) ==
  IF PendingLeaves(s.userId, subId) = {}
    THEN SessionOnly(u, s, "CANCEL_LEAVE", "cancelLeaveRequest", "noPendingLeave")
    ELSE \E i \in PendingLeaves(s.userId, subId) :
           /\ leaveReqs' = [leaveReqs EXCEPT ![i].status = "cancelled",
                                            ![i].cancelSeen = Len(leaveReqs)]
           /\ session' = [session EXCEPT ![u] = s]
           /\ last' = Did(u, "CANCEL_LEAVE", "cancelLeaveRequest", "leaveCancelled")
           /\ UNCHANGED <<users, subs, payments, balance, now, storevars, inflight, nextRef, pc, joinLog, fetching, sweeping, dispatch, subcategoriesMap>>

----------------------------------------------------------------------------
(* The daily sweep, src/src/utils/cron.js *)

\* sub.crew.filter((email) => email !== user.email)
RECURSIVE FilterCrew(_, _)
FilterCrew(crew, e) ==
  IF crew = <<>> THEN <<>>
  ELSE IF Head(crew) = e THEN FilterCrew(Tail(crew), e)
  ELSE <<Head(crew)>> \o FilterCrew(Tail(crew), e)

\* the body of the for loop for request i, on tables [subs, reqs]
SweepOne(db, i) ==
  LET req == db.reqs[i] IN
  IF ~(\E r \in db.subs : r.subId = req.subId) \/ ~HasUser(req.userId) THEN db
  ELSE LET sub == CHOOSE r \in db.subs : r.subId = req.subId
           user == UserOf(req.userId)
       IN [subs |-> (db.subs \ {sub})
                      \cup {[sub EXCEPT !.crew = FilterCrew(sub.crew, user.email),
                                        !.subRemSlot = @ + 1]},
           reqs |-> [db.reqs EXCEPT ![i].status = "completed"]]

\* the for loop over expiredRequests, a list of request indexes
RECURSIVE SweepAll(_, _)
SweepAll(db, expired) ==
  IF expired = <<>> THEN db ELSE SweepAll(SweepOne(db, Head(expired)), Tail(expired))

\* findMany({ where: { status: 'pending', expiresAt: { lte: now } } }), by id
RECURSIVE ExpiredFrom(_)
ExpiredFrom(i) ==
  IF i > Len(leaveReqs) THEN <<>>
  ELSE IF leaveReqs[i].status = "pending" /\ leaveReqs[i].expiresAt <= now
    THEN <<i>> \o ExpiredFrom(i + 1)
  ELSE ExpiredFrom(i + 1)

\* one run of the cron job '0 0 * * *'
Sweep ==
  /\ now % DayMinutes = 0
  /\ LET db == SweepAll([subs |-> subs, reqs |-> leaveReqs], ExpiredFrom(1)) IN
       /\ subs' = db.subs
       /\ leaveReqs' = db.reqs
  /\ last' = Did(NULL, "cron", "sweep", "none")
  /\ UNCHANGED <<users, payments, balance, session, now, storevars, inflight, nextRef, pc, joinLog, fetching, sweeping, dispatch, subcategoriesMap>>

\* what can go wrong with the database while one request is processed: nothing, the
\* reads or subscription.update throwing, or leaveRequest.update throwing after the
\* subscription was updated
SweepFaults == {"none", "subscription.update", "leaveRequest.update"}

\* the body of the for loop for request i when the database fails as fault says
SweepOneFaulty(db, i, fault) ==
  CASE fault = "none" -> SweepOne(db, i)
    [] fault = "subscription.update" -> db
    [] fault = "leaveRequest.update" -> [subs |-> SweepOne(db, i).subs, reqs |-> db.reqs]

\* a for loop without the inner try/catch: the first failure ends the run
RECURSIVE SweepAllAborting(_, _, _)
SweepAllAborting(db, expired, faults) ==
  IF expired = <<>> THEN db
  ELSE IF faults[Head(expired)] # "none"
    THEN SweepOneFaulty(db, Head(expired), faults[Head(expired)])
  ELSE SweepAllAborting(SweepOne(db, Head(expired)), Tail(expired), faults)

\* the for loop over expiredRequests with its try/catch around each request
RECURSIVE SweepAllFaulty(_, _, _)
SweepAllFaulty(db, expired, faults) ==
  IF expired = <<>> THEN db
  ELSE SweepAllFaulty(SweepOneFaulty(db, Head(expired), faults[Head(expired)]),
                      Tail(expired), faults)

\* whether the run logged 'Failed to process leave request'
SweepLogged(expired, faults) ==
  IF \E k \in 1..Len(expired) : faults[expired[k]] # "none" THEN "processFailed" ELSE "none"

\* one run of the cron job in which the database fails for the requests faults names
SweepWithFaults(faults) ==
  /\ now % DayMinutes = 0
  /\ LET db == SweepAllFaulty([subs |-> subs, reqs |-> leaveReqs], ExpiredFrom(1), faults) IN
       /\ subs' = db.subs
       /\ leaveReqs' = db.reqs
  /\ last' = Did(NULL, "cron", "sweep", SweepLogged(ExpiredFrom(1), faults))
  /\ UNCHANGED <<users, payments, balance, session, now, storevars, inflight, nextRef, pc, joinLog, fetching, sweeping, dispatch, subcategoriesMap>>

\* the clock runs MaxDays days
MaxDays == 4

\* time passes: past the inactivity threshold, or to the next midnight
Tick ==
  /\ \E d \in {InactiveThreshold + 1, DayMinutes - (now % DayMinutes)} :
       /\ d = InactiveThreshold + 1 => now % DayMinutes = 0
       /\ now + d <= MaxDays * DayMinutes
       /\ now' = now + d
  /\ UNCHANGED <<dbvars, session, nextRef, pc, joinLog, last, storevars, inflight, fetching, sweeping, dispatch, subcategoriesMap>>

----------------------------------------------------------------------------
(* bot.on('text') and the handlers ahead of it *)

JoinSubscriptionText == <<"J", "o", "i", "n", " ", "S", "u", "b", "s", "c", "r", "i", "p", "t", "i", "o", "n">>
MySubscriptionsText == <<"M", "y", " ", "S", "u", "b", "s", "c", "r", "i", "p", "t", "i", "o", "n", "s">>
AddMySubscriptionText == <<"A", "d", "d", " ", "M", "y", " ", "S", "u", "b", "s", "c", "r", "i", "p", "t", "i", "o", "n">>

\* handleSubscriptionListing: the switch on ctx.session.step
handleSubscriptionListing(u, s, t) ==
  CASE s.step = "enterSlot" -> EnterSlot(u, s, t)
    [] s.step = "enterEmail" -> EnterEmail(u, s, t)
    [] s.step = "enterPassword" -> EnterPassword(u, s, t)
    [] s.step = "enterWhatsApp" -> EnterWhatsApp(u, s, t)
    [] s.step = "updateSlots" -> handleUpdateSlots(u, s, t)
    [] s.step = "updateDuration" -> handleUpdateDuration(u, s, t)

\* the menu options of bot.on('text'), for a registered session without a step
MenuOption(u, s, t) ==
  CASE t = JoinSubscriptionText ->
         SessionOnly(u, browseSubscriptionsWorkflow(clearListingSession(s)),
                     "text", "browseSubscriptionsWorkflow", BrowseReply)
    [] t = MySubscriptionsText ->
         SessionOnly(u, mySubscriptionsWorkflow(clearListingSession(s)),
                     "text", "mySubscriptionsWorkflow", "askListedOrJoined")
    [] t = AddMySubscriptionText ->
         SessionOnly(u, addSubscriptionWorkflow(clearListingSession(s)),
                     "text", "addSubscriptionWorkflow", "askCategory")
    [] OTHER -> SessionOnly(u, s, "text", "none", "none")

\* bot.on('text')
OnTextHandler(u, s0, t, code, webhookOk) ==
  LET s == [s0 EXCEPT !.userId = u] IN
  IF s.step \in RegistrationSteps THEN handleRegistration(u, s, t, code, webhookOk)
  ELSE IF s.step \in ListingSteps THEN handleSubscriptionListing(u, s, t)
  ELSE IF s.step # NULL THEN SessionOnly(u, s, "text", "none", "none")
  ELSE IF s.persistentUser # "yes"
    THEN ensureRegistered(u, s, "text",
           LAMBDA r : SessionOnly(u, r, "text", "ensureRegistered", "none"))
  ELSE MenuOption(u, s, t)

\* bot.on('text') registered ahead of /start and /menu/i: a step's handler sees every text
TextChainStepsFirst(u, s, t, code, webhookOk) ==
  IF s.step # NULL THEN OnTextHandler(u, s, t, code, webhookOk)
  ELSE IF IsStartCommand(t) THEN StartCommand(u, s)
  ELSE IF MatchesMenu(t) THEN HearsMenu(u, s)
  ELSE OnTextHandler(u, s, t, code, webhookOk)

\* a text message: /start, then /menu/i, then bot.on('text')
TextChain(u, s, t, code, webhookOk) ==
  IF IsStartCommand(t) THEN StartCommand(u, s)
  ELSE IF MatchesMenu(t) THEN HearsMenu(u, s)
  ELSE OnTextHandler(u, s, t, code, webhookOk)


----------------------------------------------------------------------------
(* The updates the transport delivers *)

\* a text message
Text(u, t, code, webhookOk) ==
  Deliver(u, "text", LAMBDA s : TextChain(u, s, t, code, webhookOk))

\* a button click whose handler is H
Click(u, ev, H(_)) == Deliver(u, ev, H)

ClickBrowse(u) == Click(u, "BROWSE", LAMBDA s : Browse(u, s))
ClickSelectSub(u, subId) ==
  Click(u, "SELECT_SUB", LAMBDA s : handleSubscriptionSelection(u, s, subId))
ClickPaySub(u, outcome) ==
  Click(u, "PAY_SUB", LAMBDA s : initiatePayment(u, s, "PAY_SUB", outcome))
ClickVerifyPayment(u, status) ==
  Click(u, "VERIFY_PAYMENT", LAMBDA s : verifyPayment(u, s, status))
ClickCancelPayment(u) == Click(u, "CANCEL_PAYMENT", LAMBDA s : cancelPayment(u, s))
ClickBrowseCat(u, category) ==
  Click(u, "BROWSE_CAT", LAMBDA s : handleBrowseCategorySelection(u, s, category))
ClickBrowseSubcat(u, subcategory) ==
  Click(u, "BROWSE_SUBCAT",
        LAMBDA s : handleBrowseSubcategorySelection(u, s, "BROWSE_SUBCAT", subcategory))
ClickBrowseNext(u) == Click(u, "BROWSE_NEXT", LAMBDA s : BrowseNext(u, s))
ClickSortOldest(u) == Click(u, "SORT_OLDEST", LAMBDA s : SortOldest(u, s))
ClickUnlistSub(u, subId, notified) ==
  Click(u, "UNLIST_SUB", LAMBDA s : unlistSubscription(u, s, subId, notified))
ClickUpdateSub(u, subId) ==
  Click(u, "UPDATE_SUB", LAMBDA s : updateSubscription(u, s, subId))
ClickUpdateSlots(u, subId) ==
  Click(u, "UPDATE_SLOTS", LAMBDA s : UpdateSlotsAction(u, s, subId))
ClickUpdateDuration(u, subId) ==
  Click(u, "UPDATE_DURATION", LAMBDA s : UpdateDurationAction(u, s, subId))
ClickUpdateShareAccess(u, subId) ==
  Click(u, "UPDATE_SHARE_ACCESS", LAMBDA s : UpdateShareAccessAction(u, s, subId))
ClickLeaveSub(u, subId) ==
  Click(u, "LEAVE_SUB", LAMBDA s : leaveSubscription(u, s, "LEAVE_SUB", subId, FALSE))
ClickConfirmLeave(u, subId) ==
  Click(u, "CONFIRM_LEAVE",
        LAMBDA s : leaveSubscription(u, s, "CONFIRM_LEAVE", subId, TRUE))
ClickCancelLeave(u, subId) ==
  Click(u, "CANCEL_LEAVE", LAMBDA s : cancelLeaveRequest(u, s, subId))
ClickAddSub(u) == Click(u, "ADD_SUB", LAMBDA s : AddSub(u, s))
ClickCategory(u, category) ==
  Click(u, "CATEGORY", LAMBDA s : CategoryAction(u, s, category))
ClickSubcategory(u, subSubCat) ==
  Click(u, "SUBCATEGORY", LAMBDA s : SubcategoryAction(u, s, subSubCat))
ClickPlanId(u, planId) == Click(u, "PLAN_ID", LAMBDA s : PlanIdAction(u, s, planId))
ClickShareLogin(u) == Click(u, "SHARE_LOGIN", LAMBDA s : ShareLogin(u, s))
ClickShareOtp(u) == Click(u, "SHARE_OTP", LAMBDA s : ShareOtp(u, s))
ClickDuration(u, duration) ==
  Click(u, "DURATION", LAMBDA s : DurationAction(u, s, duration))
ClickConfirmSubscription(u) ==
  Click(u, "CONFIRM_SUBSCRIPTION", LAMBDA s : ConfirmSubscription(u, s))
ClickCancelSubscription(u) ==
  Click(u, "CANCEL_SUBSCRIPTION", LAMBDA s : CancelSubscription(u, s))

----------------------------------------------------------------------------
(* The texts the participants type *)

StartText == <<"/", "s", "t", "a", "r", "t">>
MenuText == <<"M", "e", "n", "u">>
John == <<"J", "o", "h", "n">>
JohnDoe == <<"J", "o", "h", "n", " ", "D", "o", "e">>
EmailA == <<"a", "@", "b", ".", "c">>
EmailAUpper == <<"A", "@", "b", ".", "c", " ">>
EmailD == <<"d", "@", "b", ".", "c">>
EmailJ == <<"j", "@", "b", ".", "c">>
One == <<"1">>
Two == <<"2">>
Zero == <<"0">>
TwoX == <<"2", "x">>
WhatsAppNumber == <<"+", "1", "2", "3", "4", "5", "6", "7", "8", "9", "0">>

----------------------------------------------------------------------------
(* Registration from an empty database *)

Init ==
  /\ users = {}
  /\ subs = {}
  /\ leaveReqs = <<>>
  /\ payments = <<>>
  /\ balance = [u \in Users |-> NoInt]
  /\ session = [u \in Users |-> EmptySession]
  /\ storeUp = TRUE
  /\ otherStore = [u \in Users |-> EmptySession]
  /\ inflight = [u \in Users |-> Idle]
  /\ fetching = NoFetch
  /\ sweeping = NoSweep
  /\ dispatch = NoUpdate
  /\ subcategoriesMap = StaticCatalog
  /\ now = 0
  /\ nextRef = 1
  /\ pc = [u \in Users |-> 0]
  /\ joinLog = <<>>
  /\ last = NoEvent

RegUsers == {"u1", "u2"}
RegTexts == {StartText, John, JohnDoe, EmailAUpper} \cup Codes

\* the code drawn and the webhook's answer, which only the two email steps consult
Draws(u) ==
  IF session[u].step \in {"collectEmail", "editEmail"}
    THEN Codes \X BOOLEAN
    ELSE {<<CHOOSE code \in Codes : TRUE, TRUE>>}

RegText == \E u \in RegUsers, t \in RegTexts : \E d \in Draws(u) : Text(u, t, d[1], d[2])
NextReg == RegText

SpecReg == Init /\ [][NextReg]_vars


\* the text t of u reaches handleRegistration: no command took it before
RegHandles(u, t) ==
  /\ ~IsStartCommand(t)
  /\ \E d \in Draws(u) : Text(u, t, d[1], d[2])

\* C4: in any interleaving of registration conversations no two User records share
\* an email: registering an email a User record holds is rejected for every user id.
C4_EmailUnique ==
  \A r1 \in users : \A r2 \in users : r1.email = r2.email => r1.userId = r2.userId

\* C8: a User record appears only by a text at step verifyCode that equals the code
\* stored in the session; a text that differs leaves the step at verifyCode, creates no
\* User record and re-prompts; a text that matches persists the user, clears the step
\* and sets persistentUser to 'yes'.
C8_VerifyCode ==
  [][ /\ \A u \in Users :
           (~HasUser(u) /\ HasUser(u)') =>
             /\ session[u].step = "verifyCode"
             /\ \E t \in RegTexts : RegHandles(u, t) /\ Trim(t) = session[u].verificationCode
      /\ \A u \in Users : \A t \in RegTexts :
           (session[u].step = "verifyCode" /\ RegHandles(u, t)) =>
             IF Trim(t) = session[u].verificationCode
               THEN /\ users' = users \cup {NewUserRow(session[u])}
                    /\ session'[u].step = NULL
                    /\ session'[u].persistentUser = "yes"
               ELSE /\ users' = users
                    /\ session'[u].step = "verifyCode"
                    /\ last' = "incorrectCode"
    ]_vars

\* C8 witness: a user was registered while another, who typed a text that is not the
\* code, is still asked for it
C8_Witness ==
  \E u \in Users, v \in Users :
    /\ HasUser(u) /\ session[u].persistentUser = "yes" /\ session[u].step = NULL
    /\ ~HasUser(v) /\ session[v].step = "verifyCode" /\ last = "incorrectCode"

\* C9: at step collectFullName a text without a space is rejected with a prompt and the
\* step stays collectFullName; a text with a space is stored and the step becomes
\* collectEmail.
C9_FullNameNeedsSpace ==
  [][ \A u \in Users : \A t \in RegTexts :
        (session[u].step = "collectFullName" /\ RegHandles(u, t)) =>
          IF \E i \in 1..Len(t) : t[i] = " "
            THEN session'[u].fullName = t /\ session'[u].step = "collectEmail"
            ELSE session'[u].step = "collectFullName" /\ last' = "invalidFullName"
    ]_vars

\* C11: at step collectEmail, when the email webhook fails for an acceptable email,
\* the flow aborts to the main menu: the step is cleared instead of left at verifyCode,
\* no User record is created, and the next text of the user starts registration again
\* at collectFullName.
C11_WebhookFailureAborts ==
  [][ \A u \in Users : \A t \in RegTexts :
        /\ \A code \in Codes :
             ( /\ session[u].step = "collectEmail"
               /\ EmailRegex(ToLowerCase(Trim(t))) /\ ~EmailUsed(ToLowerCase(Trim(t)))
               /\ ~IsStartCommand(t)
               /\ Text(u, t, code, FALSE) ) =>
               /\ session'[u].step = NULL
               /\ last' = "webhookFailed"
               /\ users' = users
        /\ ( /\ session[u].step = NULL /\ ~HasUser(u) /\ session[u].email # NullT
             /\ \E d \in Draws(u) : Text(u, t, d[1], d[2]) ) =>
             /\ session'[u].step = "collectFullName"
             /\ last' = "askFullName"
             /\ users' = users
    ]_vars

\* C11 witness: the webhook failed for u1's email and u1, still without a User record,
\* is asked for the full name again
C11_Witness ==
  /\ ~HasUser("u1")
  /\ session["u1"].step = "collectFullName"
  /\ session["u1"].email = EmailA
  /\ session["u1"].verificationCode \in Codes
  /\ last = "askFullName"


----------------------------------------------------------------------------
(* The listing wizard, run by a registered user *)

\* the users row a completed registration leaves
RegisteredRow(u) ==
  [userId |-> u, fullName |-> JohnDoe,
   email |-> CASE u = "u1" -> EmailA [] u = "u2" -> EmailD [] OTHER -> EmailJ,
   admin |-> FALSE, verified |-> FALSE]

\* a listing as CONFIRM_SUBSCRIPTION creates it for owner, with its slots all free
ListedRow(subId, owner, slots) ==
  [subId |-> subId, userId |-> owner, subPlan |-> "Spotify Family",
   subSlot |-> slots, subRemSlot |-> slots, subDuration |-> <<"1">>,
   subAmount |-> toString(PlanPrice(15) + ServiceFee), subEmail |-> WhatsAppNumber,
   subPassword |-> <<>>, status |-> "live", subCategory |-> "Music",
   subSubCategory |-> "Spotify", crew |-> <<>>, shareType |-> "otp", createdAt |-> 0]

\* u1 and u2 are registered and u2 has listed Q_A
InitList ==
  /\ users = {RegisteredRow("u1"), RegisteredRow("u2")}
  /\ subs = {ListedRow("Q_A", "u2", 2)}
  /\ leaveReqs = <<>>
  /\ payments = <<>>
  /\ balance = [u \in Users |-> NoInt]
  /\ session = [u \in Users |-> EmptySession]
  /\ storeUp = TRUE
  /\ otherStore = [u \in Users |-> EmptySession]
  /\ inflight = [u \in Users |-> Idle]
  /\ fetching = NoFetch
  /\ sweeping = NoSweep
  /\ dispatch = NoUpdate
  /\ subcategoriesMap = StaticCatalog
  /\ now = 0
  /\ nextRef = 1
  /\ pc = [u \in Users |-> 0]
  /\ joinLog = <<>>
  /\ last = NoEvent

ListUsers == {"u1"}
ListTexts == {AddMySubscriptionText, Two, WhatsAppNumber}
ListPlanIds == {15, -1}
ListDurations == {1, 13}

ListText == \E u \in ListUsers, t \in ListTexts : \E d \in Draws(u) : Text(u, t, d[1], d[2])
\* the array of a category grows with every selection of the category; the model stops
\* selecting at MaxOptions entries
MaxOptions == 4
ListCategory ==
  /\ Len(subcategoriesMap["Music"]) < MaxOptions
  /\ \E u \in ListUsers : ClickCategory(u, "Music")
ListSubcategory == \E u \in ListUsers : ClickSubcategory(u, "Spotify")
ListPlanId == \E u \in ListUsers, planId \in ListPlanIds : ClickPlanId(u, planId)
ListShareOtp == \E u \in ListUsers : ClickShareOtp(u)
ListDuration == \E u \in ListUsers, duration \in ListDurations : ClickDuration(u, duration)
ListGenerate == \E u \in ListUsers, subId \in SubIds, persisted \in BOOLEAN :
                  GenerateAttempt(u, subId, persisted)
ListConfirm == \E u \in ListUsers : ClickConfirmSubscription(u)
ListCancel == \E u \in ListUsers : ClickCancelSubscription(u)

NextList ==
  \/ ListText \/ ListCategory \/ ListSubcategory \/ ListPlanId \/ ListShareOtp
  \/ ListDuration \/ ListGenerate \/ ListConfirm \/ ListCancel

SpecList == InitList /\ [][NextList]_vars

\* the update of u left its session as it was, the time of the last activity aside
SessionKept(u) ==
  [session'[u] EXCEPT !.lastActive = NoInt] = [session[u] EXCEPT !.lastActive = NoInt]

\* C22: a listing-wizard input that arrives out of turn (a PLAN_ID_, SHARE_LOGIN,
\* SHARE_OTP, DURATION_ or CONFIRM_SUBSCRIPTION click while the session step is not the
\* one that offers it, e.g. a stale button after the wizard was cleared) is rejected and
\* does not change the session or create a listing.  The plan buttons are offered with
\* no step and a chosen subcategory, the share buttons at step shareType, the duration
\* buttons at selectDuration and Confirm at confirmSubscription.
C22_OutOfTurnRejected ==
  [][ \A u \in ListUsers :
        /\ \A planId \in ListPlanIds :
             ( /\ session[u].step # NULL \/ session[u].subSubCat = NULL
               /\ ClickPlanId(u, planId) ) => SessionKept(u) /\ subs' = subs
        /\ ( /\ session[u].step # "shareType"
             /\ ClickShareOtp(u) \/ ClickShareLogin(u) ) => SessionKept(u) /\ subs' = subs
        /\ \A duration \in ListDurations :
             ( /\ session[u].step # "selectDuration"
               /\ ClickDuration(u, duration) ) => SessionKept(u) /\ subs' = subs
        /\ ( /\ session[u].step # "confirmSubscription"
             /\ ClickConfirmSubscription(u) ) => SessionKept(u) /\ subs' = subs
    ]_vars

\* the last conjunct of C22 alone: Confirm at another step creates no listing
StaleConfirmNeverLists ==
  [][ \A u \in ListUsers :
        ( /\ session[u].step # "confirmSubscription"
          /\ ClickConfirmSubscription(u) ) => subs' = subs ]_vars


C10_AmountIsPricePlusFee ==
  [][ /\ \A u \in Users : \A planId \in ListPlanIds :
           ClickPlanId(u, planId) =>
             /\ \A i \in PlanIndexes :
                  /\ PlanSelected(session[u], i).subAmount = PlanPrice(i) + 200
                  /\ PlanName(i) = "Spotify Family" =>
                       PlanSelected(session[u], i).subAmount = 950
             /\ IF planId \in PlanIndexes
                  THEN session'[u] =
                         PlanSelected([session[u] EXCEPT !.lastActive = now], planId)
                  ELSE /\ session'[u] = [session[u] EXCEPT !.lastActive = now]
                       /\ last' = "planNotFound"
      /\ \A u \in Users :
           (ClickConfirmSubscription(u) /\ subs' # subs) =>
             /\ session[u].subAmount = PriceOf(session[u].subPlan) + 200
             /\ \E r \in subs' \ subs :
                  /\ r.subPlan = session[u].subPlan
                  /\ r.subAmount = toString(session[u].subAmount)
                  /\ r.subPlan = "Spotify Family" => r.subAmount = <<"9", "5", "0">>
    ]_vars

\* C10 witness: u1 listed Spotify Family and the listing carries 950
C10_Witness ==
  /\ last = "listed"
  /\ \E r \in subs : r.userId = "u1" /\ r.subPlan = "Spotify Family"
                     /\ r.subAmount = <<"9", "5", "0">>


----------------------------------------------------------------------------
(* Joining a listing *)

\* u1 is registered and has listed Q_A with one slot; u2 is registered; u3 is
\* registered or not
InitMarket ==
  /\ users \in { {RegisteredRow("u1"), RegisteredRow("u2")},
                 {RegisteredRow("u1"), RegisteredRow("u2"), RegisteredRow("u3")} }
  /\ subs = {ListedRow("Q_A", "u1", 1)}
  /\ leaveReqs = <<>>
  /\ payments = <<>>
  /\ balance = [u \in Users |-> NoInt]
  /\ session = [u \in Users |-> EmptySession]
  /\ storeUp = TRUE
  /\ otherStore = [u \in Users |-> EmptySession]
  /\ inflight = [u \in Users |-> Idle]
  /\ fetching = NoFetch
  /\ sweeping = NoSweep
  /\ dispatch = NoUpdate
  /\ subcategoriesMap = StaticCatalog
  /\ now = 0
  /\ nextRef = 1
  /\ pc = [u \in Users |-> 0]
  /\ joinLog = <<>>
  /\ last = NoEvent

MarketUsers == {"u2", "u3"}
MarketOutcomes == {"ok", "failed"}
MarketStatuses == Statuses

MarketStart == \E u \in MarketUsers : \E d \in Draws(u) : Text(u, StartText, d[1], d[2])
MarketBrowse == \E u \in MarketUsers : ClickBrowse(u)
MarketSelectSub == \E u \in MarketUsers : ClickSelectSub(u, "Q_A")
MarketPaySub == \E u \in MarketUsers, outcome \in MarketOutcomes : ClickPaySub(u, outcome)
MarketVerifyPayment ==
  \E u \in MarketUsers, status \in MarketStatuses : ClickVerifyPayment(u, status)
MarketCancelPayment == \E u \in MarketUsers : ClickCancelPayment(u)

NextMarket ==
  \/ MarketStart \/ MarketBrowse \/ MarketSelectSub \/ MarketPaySub
  \/ MarketVerifyPayment \/ MarketCancelPayment

SpecMarket == InitMarket /\ [][NextMarket]_vars

\* C1: every listing has 0 <= subRemSlot <= subSlot in every state reached by joins,
\* sweep completions and slot updates.
C1_SlotsInRange ==
  \A r \in subs : 0 <= r.subRemSlot /\ r.subRemSlot <= r.subSlot

\* the VERIFY_PAYMENT of u reaches verifyPayment with a reference, a selected listing
\* that exists and a registered user, and the collaborator answers success
VerifiesSuccess(u) ==
  /\ InactivityMiddleware(session[u]).pass
  /\ session[u].transferReference \notin {NoInt, 0}
  /\ HasSub(session[u].selectedSubId) /\ HasUser(session[u].userId)
  /\ ClickVerifyPayment(u, "success")

\* C2: of the users who run the join flow against a listing with one remaining slot,
\* the one who verifies while the slot is free takes it (remaining slots 0, member
\* added) and one who verifies after that is told the listing is unavailable and
\* changes no persisted record.
C2_LastSlotOnce ==
  [][ \A u \in Users :
        VerifiesSuccess(u) =>
          LET sub == SubOf(session[u].selectedSubId) IN
          IF sub.subRemSlot >= 1
            THEN subs' = (subs \ {sub})
                           \cup {[sub EXCEPT !.subRemSlot = sub.subRemSlot - 1,
                                             !.crew = Append(sub.crew, UserOf(u).email)]}
            ELSE /\ last' = "unavailable"
                 /\ UNCHANGED dbvars
    ]_vars

C13_CancelDiscards ==
  [][ \A u \in Users :
        /\ (InactivityMiddleware(session[u]).pass /\ ClickCancelPayment(u)) =>
             /\ session'[u].step = NULL
             /\ session'[u].authUrl = NULL
             /\ session'[u].transferReference = NoInt
             /\ session'[u].selectedSubId = NULL
             /\ last' = "paymentCancelled"
             /\ UNCHANGED dbvars
        /\ \A status \in Statuses :
             ( /\ session[u].transferReference = NoInt /\ session[u].selectedSubId = NULL
               /\ session[u].authUrl = NULL /\ session[u].step = NULL
               /\ InactivityMiddleware(session[u]).pass
               /\ ClickVerifyPayment(u, status) ) =>
               /\ last' = "invalidRequest"
               /\ UNCHANGED dbvars
               /\ session'[u].transferReference = NoInt
    ]_vars

\* C13 witness: u2 browsed, selected, was given reference 1 and cancelled; its
\* VERIFY_PAYMENT was then refused and nobody has joined
C13_Witness ==
  /\ nextRef = 2 /\ payments = <<>> /\ session["u3"] = EmptySession
  /\ session["u2"].browsePage = 0 /\ session["u2"].step = NULL
  /\ session["u2"].transferReference = NoInt /\ session["u2"].selectedSubId = NULL
  /\ last = "invalidRequest"
  /\ \A r \in subs : r.crew = <<>>


\* C7: a click on a button that requires registration, by a participant with no User
\* record, puts the session at step collectFullName and performs nothing of the
\* requested action.
C7_RegistrationGate ==
  [][ \A u \in Users :
        ( /\ ~HasUser(u)
          /\ InactivityMiddleware(session[u]).pass
          /\ \/ ClickBrowse(u)
             \/ ClickSelectSub(u, "Q_A")
             \/ \E outcome \in MarketOutcomes : ClickPaySub(u, outcome)
             \/ \E status \in MarketStatuses : ClickVerifyPayment(u, status) ) =>
          /\ session'[u].step = "collectFullName"
          /\ session'[u].selectedSubId = session[u].selectedSubId
          /\ UNCHANGED dbvars
    ]_vars

----------------------------------------------------------------------------
(* Browsing the listings on offer *)

\* u1 has listed Q_A and, a minute later, Q_B, each with one slot; u2 is registered
InitBrowse ==
  /\ users = {RegisteredRow("u1"), RegisteredRow("u2")}
  /\ subs = {ListedRow("Q_A", "u1", 1), [ListedRow("Q_B", "u1", 1) EXCEPT !.createdAt = 1]}
  /\ leaveReqs = <<>>
  /\ payments = <<>>
  /\ balance = [u \in Users |-> NoInt]
  /\ session = [u \in Users |-> EmptySession]
  /\ storeUp = TRUE
  /\ otherStore = [u \in Users |-> EmptySession]
  /\ inflight = [u \in Users |-> Idle]
  /\ fetching = NoFetch
  /\ sweeping = NoSweep
  /\ dispatch = NoUpdate
  /\ subcategoriesMap = StaticCatalog
  /\ now = 1
  /\ nextRef = 1
  /\ pc = [u \in Users |-> 0]
  /\ joinLog = <<>>
  /\ last = NoEvent

BrowseOwners == {"u1"}
BrowseUsers == {"u2"}
\* Q_C is the id of no listing
BrowseSubIds == {"Q_A", "Q_B", "Q_C"}

BrowseStart ==
  \E u \in BrowseOwners \cup BrowseUsers : \E d \in Draws(u) : Text(u, StartText, d[1], d[2])
BrowseUnlist == \E u \in BrowseOwners : ClickUnlistSub(u, "Q_B", TRUE)
BrowseBrowse == \E u \in BrowseUsers : ClickBrowse(u)
BrowseCat == \E u \in BrowseUsers : ClickBrowseCat(u, "Music")
BrowseSubcat == \E u \in BrowseUsers : ClickBrowseSubcat(u, "Spotify")
BrowseNextPage ==
  \E u \in BrowseUsers : session[u].browseSubcategory # NULL /\ ClickBrowseNext(u)
BrowseSortOldest ==
  \E u \in BrowseUsers : session[u].browseSubcategory # NULL /\ ClickSortOldest(u)
BrowseSelectSub == \E u \in BrowseUsers, subId \in BrowseSubIds : ClickSelectSub(u, subId)
BrowsePaySub == \E u \in BrowseUsers : ClickPaySub(u, "ok")
BrowseVerifyPayment == \E u \in BrowseUsers : ClickVerifyPayment(u, "success")

NextBrowse ==
  \/ BrowseStart \/ BrowseUnlist \/ BrowseBrowse \/ BrowseCat \/ BrowseSubcat
  \/ BrowseNextPage \/ BrowseSortOldest \/ BrowseSelectSub \/ BrowsePaySub
  \/ BrowseVerifyPayment

SpecBrowse == InitBrowse /\ [][NextBrowse]_vars

\* C14: every listing the browse flow offers has status live and subRemSlot > 0 at the
\* time of the query, and handleSubscriptionSelection on a listing that is missing, not
\* live or without a remaining slot answers 'unavailable' without setting selectedSubId.
C14_OffersAvailable ==
  [][ \A u \in Users :
        /\ \A id \in SubIds :
             ( /\ last' = SelectButton(id)
               /\ \/ ClickBrowseSubcat(u, "Spotify") \/ ClickBrowseNext(u)
                  \/ ClickSortOldest(u) ) =>
               /\ HasSub(id)
               /\ SubOf(id).status = "live" /\ SubOf(id).subRemSlot > 0
               /\ SubOf(id).subSubCategory = session'[u].browseSubcategory
        /\ (last' = "askBrowseCategory" /\ ClickBrowse(u)) =>
             \E r \in subs : r.status = "live" /\ r.subRemSlot > 0
        /\ \A id \in BrowseSubIds :
             (last' \in {"unavailable", "details"} /\ ClickSelectSub(u, id)) =>
               IF ~HasSub(id) \/ SubOf(id).status # "live" \/ SubOf(id).subRemSlot <= 0
                 THEN /\ last' = "unavailable"
                      /\ session'[u].selectedSubId = session[u].selectedSubId
                      /\ UNCHANGED dbvars
                 ELSE session'[u].selectedSubId = id
    ]_vars

\* C14 witness: Q_B, the newest listing, is no longer live and Q_A is full; the last
\* selection was refused and the session holds no selected listing
C14_Witness ==
  /\ SubOf("Q_B").status = "pending_unlist"
  /\ SubOf("Q_A").subRemSlot = 0
  /\ last = "unavailable"
  /\ session["u2"].selectedSubId = NULL

----------------------------------------------------------------------------
(* Managing a listing: unlist and update *)

\* u1 has listed Q_A with one slot; u2 is registered
InitOwner ==
  /\ users = {RegisteredRow("u1"), RegisteredRow("u2")}
  /\ subs = {ListedRow("Q_A", "u1", 1)}
  /\ leaveReqs = <<>>
  /\ payments = <<>>
  /\ balance = [u \in Users |-> NoInt]
  /\ session = [u \in Users |-> EmptySession]
  /\ storeUp = TRUE
  /\ otherStore = [u \in Users |-> EmptySession]
  /\ inflight = [u \in Users |-> Idle]
  /\ fetching = NoFetch
  /\ sweeping = NoSweep
  /\ dispatch = NoUpdate
  /\ subcategoriesMap = StaticCatalog
  /\ now = 0
  /\ nextRef = 1
  /\ pc = [u \in Users |-> 0]
  /\ joinLog = <<>>
  /\ last = NoEvent

OwnerUsers == {"u1", "u2"}
\* Q_C is the id of no listing
OwnerSubIds == {"Q_A", "Q_C"}
OwnerTexts == {Two, Zero, TwoX}

OwnerStart == \E u \in OwnerUsers : \E d \in Draws(u) : Text(u, StartText, d[1], d[2])
OwnerText == \E u \in OwnerUsers, t \in OwnerTexts : \E d \in Draws(u) : Text(u, t, d[1], d[2])
OwnerUnlist ==
  \E u \in OwnerUsers, subId \in OwnerSubIds, notified \in BOOLEAN :
    ClickUnlistSub(u, subId, notified)
OwnerUpdateSub == \E u \in OwnerUsers, subId \in OwnerSubIds : ClickUpdateSub(u, subId)
OwnerUpdateSlots == \E u \in OwnerUsers, subId \in OwnerSubIds : ClickUpdateSlots(u, subId)
OwnerUpdateDuration ==
  \E u \in OwnerUsers, subId \in OwnerSubIds : ClickUpdateDuration(u, subId)

NextOwner ==
  \/ OwnerStart \/ OwnerText \/ OwnerUnlist \/ OwnerUpdateSub \/ OwnerUpdateSlots
  \/ OwnerUpdateDuration

SpecOwner == InitOwner /\ [][NextOwner]_vars

C16_UpdateOwnerOnly ==
  [][ \A u \in Users :
        /\ \A subId \in OwnerSubIds :
             ( /\ HasSub(subId) /\ SubOf(subId).userId # u
               /\ last' \in {"invalidSubscription", "askWhatToUpdate"}
               /\ ClickUpdateSub(u, subId) ) =>
               last' = "invalidSubscription" /\ UNCHANGED dbvars
        /\ \A t \in OwnerTexts :
             ( /\ session[u].step \in {"updateSlots", "updateDuration"}
               /\ HasSub(session[u].updateSubId)
               /\ SubOf(session[u].updateSubId).userId # u
               /\ \E d \in Draws(u) : Text(u, t, d[1], d[2]) ) =>
               /\ subs' = subs
               /\ last' \notin {"slotsUpdated", "durationUpdated"}
    ]_vars

----------------------------------------------------------------------------
(* Leaving a listing, and the daily sweep *)

\* u1 has listed Q_A with two slots and u2 has joined it with reference 1
InitLeave ==
  /\ users = {RegisteredRow("u1"), RegisteredRow("u2")}
  /\ subs = {JoinRow(ListedRow("Q_A", "u1", 2), EmailD)}
  /\ leaveReqs = <<>>
  /\ payments = << [userId |-> "u2", subId |-> "Q_A", subPlan |-> "Spotify Family",
                    amount |-> PlanPrice(15) + ServiceFee, reference |-> 1,
                    status |-> "success"] >>
  /\ balance = [u \in Users |-> IF u = "u1" THEN PlanPrice(15) + ServiceFee ELSE NoInt]
  /\ session = [u \in Users |-> EmptySession]
  /\ storeUp = TRUE
  /\ otherStore = [u \in Users |-> EmptySession]
  /\ inflight = [u \in Users |-> Idle]
  /\ fetching = NoFetch
  /\ sweeping = NoSweep
  /\ dispatch = NoUpdate
  /\ subcategoriesMap = StaticCatalog
  /\ now = 0
  /\ nextRef = 2
  /\ pc = [u \in Users |-> 0]
  /\ joinLog = << [reference |-> 1, subId |-> "Q_A", email |-> EmailD, owner |-> "u1"] >>
  /\ last = NoEvent

LeaveUsers == {"u2"}

LeaveStart == \E u \in LeaveUsers : \E d \in Draws(u) : Text(u, StartText, d[1], d[2])
LeaveLeaveSub == \E u \in LeaveUsers : ClickLeaveSub(u, "Q_A")
LeaveConfirmLeave == \E u \in LeaveUsers : ClickConfirmLeave(u, "Q_A")
LeaveCancelLeave == \E u \in LeaveUsers : ClickCancelLeave(u, "Q_A")

NextLeave ==
  \/ LeaveStart \/ LeaveLeaveSub \/ LeaveConfirmLeave \/ LeaveCancelLeave
  \/ Sweep \/ Tick

SpecLeave == InitLeave /\ [][NextLeave]_vars

\* u is in the crew of the listing subId
IsMember(u, subId) ==
  HasUser(u) /\ HasSub(subId) /\ InCrew(SubOf(subId).crew, UserOf(u).email)

C5_LeaveGrace ==
  [][ /\ \A i \in 1..Len(leaveReqs) :
           (leaveReqs[i].status = "pending" /\ leaveReqs'[i].status = "completed") =>
             /\ now >= leaveReqs[i].createdAt + 3 * 1440
             /\ ~ \E j \in 1..Len(leaveReqs) :
                    /\ leaveReqs[j].status = "cancelled"
                    /\ leaveReqs[j].userId = leaveReqs[i].userId
                    /\ leaveReqs[j].subId = leaveReqs[i].subId
                    /\ leaveReqs[j].cancelSeen >= i
      /\ (Sweep /\ subs' # subs) =>
           \E i \in 1..Len(leaveReqs) :
             leaveReqs[i].status = "pending" /\ leaveReqs'[i].status = "completed"
    ]_vars

\* an update of u reaches the bot
LeaveEvent(u) ==
  \/ \E d \in Draws(u) : Text(u, StartText, d[1], d[2])
  \/ ClickLeaveSub(u, "Q_A")
  \/ ClickConfirmLeave(u, "Q_A")
  \/ ClickCancelLeave(u, "Q_A")

\* the fields the inactivity reset is to clear are clear in s
ResetFieldsClear(s) ==
  /\ s.step = NULL
  /\ s.subCat = NULL /\ s.subSubCat = NULL /\ s.subPlan = NULL /\ s.subAmount = NoInt
  /\ s.subSlot = NoInt /\ s.subDuration = NoInt /\ s.subEmail = NullT
  /\ s.subPassword = NullT /\ s.shareType = NULL /\ s.whatsappNo = NullT
  /\ s.subId = NULL
  /\ s.browseCategory = NULL /\ s.browseSubcategory = NULL /\ s.browsePage = NoInt
  /\ s.browseSort = NULL /\ s.selectedSubId = NULL
  /\ s.authUrl = NULL /\ s.transferReference = NoInt
  /\ s.updateSubId = NULL /\ s.updateSlots = NoInt /\ s.leaveSubId = NULL

\* the first half of C20: an update arriving more than 10 minutes after lastActive
\* resets the session, shows the main menu and runs no handler
InactiveEventResets ==
  [][ \A u \in LeaveUsers :
        ( /\ session[u].lastActive # NoInt
          /\ now - session[u].lastActive > 10
          /\ LeaveEvent(u) ) =>
          /\ ResetFieldsClear(session'[u])
          /\ last' = "mainMenu"
          /\ UNCHANGED dbvars ]_vars

\* C20: an event arriving more than 10 minutes after the session's lastActive clears the
\* step and all wizard, browse, payment and update fields, shows the main menu and does
\* not run the step handler for that event; an event arriving within 10 minutes is
\* passed on and updates lastActive.
C20_InactivityReset ==
  [][ \A u \in LeaveUsers :
        ( /\ session[u].lastActive # NoInt
          /\ LeaveEvent(u) ) =>
          IF now - session[u].lastActive > 10
            THEN /\ ResetFieldsClear(session'[u])
                 /\ last' = "mainMenu"
                 /\ UNCHANGED dbvars
            ELSE /\ last' # "dropped"
                 /\ session'[u].lastActive = now ]_vars

\* the update after a reset arrived within 10 minutes and was swallowed
DroppedAfterReset ==
  /\ last = "dropped"
  /\ session["u2"].lastActive = now
  /\ ~session["u2"].wasInactive


----------------------------------------------------------------------------
(* The daily sweep with a failing database *)

\* u1 has listed Q_A with two slots; u2 and u3 have joined it with references 1 and 2
InitSweep ==
  /\ users = {RegisteredRow("u1"), RegisteredRow("u2"), RegisteredRow("u3")}
  /\ subs = {JoinRow(JoinRow(ListedRow("Q_A", "u1", 2), EmailD), EmailJ)}
  /\ leaveReqs = <<>>
  /\ payments = << [userId |-> "u2", subId |-> "Q_A", subPlan |-> "Spotify Family",
                    amount |-> PlanPrice(15) + ServiceFee, reference |-> 1,
                    status |-> "success"],
                   [userId |-> "u3", subId |-> "Q_A", subPlan |-> "Spotify Family",
                    amount |-> PlanPrice(15) + ServiceFee, reference |-> 2,
                    status |-> "success"] >>
  /\ balance = [u \in Users |-> IF u = "u1" THEN 2 * (PlanPrice(15) + ServiceFee) ELSE NoInt]
  /\ session = [u \in Users |-> EmptySession]
  /\ storeUp = TRUE
  /\ otherStore = [u \in Users |-> EmptySession]
  /\ inflight = [u \in Users |-> Idle]
  /\ fetching = NoFetch
  /\ sweeping = NoSweep
  /\ dispatch = NoUpdate
  /\ subcategoriesMap = StaticCatalog
  /\ now = 0
  /\ nextRef = 3
  /\ pc = [u \in Users |-> 0]
  /\ joinLog = << [reference |-> 1, subId |-> "Q_A", email |-> EmailD, owner |-> "u1"],
                  [reference |-> 2, subId |-> "Q_A", email |-> EmailJ, owner |-> "u1"] >>
  /\ last = NoEvent

SweepUsers == {"u2", "u3"}

\* the members ask to leave on the first two days
SweepStart ==
  /\ now <= DayMinutes
  /\ \E u \in SweepUsers : \E d \in Draws(u) : Text(u, StartText, d[1], d[2])
SweepConfirmLeave == now <= DayMinutes /\ \E u \in SweepUsers : ClickConfirmLeave(u, "Q_A")
\* a request whose completion keeps failing is processed at every run; the runs of the
\* model stop when a listing shows MaxSweptSlots remaining slots
MaxSweptSlots == 2

\* the requests the run finds due, as a set of indexes
Due == {i \in 1..Len(leaveReqs) : leaveReqs[i].status = "pending" /\ leaveReqs[i].expiresAt <= now}

\* the database can fail only where it is called: for the due requests
FaultVectors ==
  {faults \in [1..Len(leaveReqs) -> SweepFaults] :
     \A i \in 1..Len(leaveReqs) : i \notin Due => faults[i] = "none"}

SweepRun ==
  /\ \A r \in subs : r.subRemSlot < MaxSweptSlots
  /\ \E faults \in FaultVectors : SweepWithFaults(faults)

\* the clock moves from midnight to midnight
SweepTick == Tick /\ now' % DayMinutes = 0

NextSweep == SweepStart \/ SweepConfirmLeave \/ SweepRun \/ SweepTick

SpecSweep == InitSweep /\ [][NextSweep]_vars

\* C18: in one sweep run a failure while processing one due leave request does not stop
\* the sweep: every other due pending request of the run is still processed, the member
\* removed, the remaining slots incremented and the request marked completed.
C18_SweepIsolatesFailures ==
  [][ \A faults \in FaultVectors :
        (last' \in {"none", "processFailed"} /\ SweepWithFaults(faults)) =>
          /\ \A i \in Due :
               faults[i] = "none" =>
                 /\ leaveReqs'[i].status = "completed"
                 /\ \A r \in subs' :
                      r.subId = leaveReqs[i].subId =>
                        ~InCrew(r.crew, UserOf(leaveReqs[i].userId).email)
          /\ \A r \in subs : \E r2 \in subs' :
               /\ r2.subId = r.subId
               /\ r2.subRemSlot =
                    r.subRemSlot + Cardinality({i \in Due : /\ leaveReqs[i].subId = r.subId
                                                           /\ faults[i] # "subscription.update"})
    ]_vars

\* C18 witness: the requests of u2 and u3 were due in the same run; the first failed
\* and is still pending with its member in the crew, the second was completed
C18_Witness ==
  /\ Len(leaveReqs) = 2
  /\ leaveReqs[1].expiresAt = leaveReqs[2].expiresAt
  /\ leaveReqs[1].userId # leaveReqs[2].userId
  /\ leaveReqs[1].status = "pending" /\ leaveReqs[2].status = "completed"
  /\ last = "processFailed"
  /\ \E r \in subs : /\ InCrew(r.crew, UserOf(leaveReqs[1].userId).email)
                      /\ ~InCrew(r.crew, UserOf(leaveReqs[2].userId).email)
                      /\ r.subRemSlot = 1



----------------------------------------------------------------------------
(* The session stores of safeSession, src/src/middlewares/session.js *)

\* the rows of table sessions: store.get reads session_data of a key's row and store.set
\* upserts it
Durable == IF storeUp THEN session ELSE otherStore

\* the map of inMemorySession
InMemory == IF storeUp THEN otherStore ELSE session

\* a probe that leaves the sessions where they are: the store does not change
StoreFlipsKeepsSessions ==
  /\ storeUp' = ~storeUp
  /\ UNCHANGED <<dbvars, session, otherStore, now, nextRef, pc, joinLog, last, inflight, fetching, sweeping, dispatch, subcategoriesMap>>

\* the database becomes unreachable, or reachable again: from the next update on
\* safeSession reads and saves ctx.session in the other store
StoreFlips ==
  /\ storeUp' = ~storeUp
  /\ session' = otherStore
  /\ otherStore' = session
  /\ UNCHANGED <<dbvars, now, nextRef, pc, joinLog, last, inflight, fetching, sweeping, dispatch, subcategoriesMap>>

\* u1 has listed Q_A with two slots and u2 has joined it; the database is reachable
InitSession ==
  /\ users = {RegisteredRow("u1"), RegisteredRow("u2")}
  /\ subs = {JoinRow(ListedRow("Q_A", "u1", 2), EmailD)}
  /\ leaveReqs = <<>>
  /\ payments = << [userId |-> "u2", subId |-> "Q_A", subPlan |-> "Spotify Family",
                    amount |-> PlanPrice(15) + ServiceFee, reference |-> 1,
                    status |-> "success"] >>
  /\ balance = [u \in Users |-> IF u = "u1" THEN PlanPrice(15) + ServiceFee ELSE NoInt]
  /\ session = [u \in Users |-> EmptySession]
  /\ storeUp = TRUE
  /\ otherStore = [u \in Users |-> EmptySession]
  /\ inflight = [u \in Users |-> Idle]
  /\ fetching = NoFetch
  /\ sweeping = NoSweep
  /\ dispatch = NoUpdate
  /\ subcategoriesMap = StaticCatalog
  /\ now = 0
  /\ nextRef = 2
  /\ pc = [u \in Users |-> 0]
  /\ joinLog = << [reference |-> 1, subId |-> "Q_A", email |-> EmailD, owner |-> "u1"] >>
  /\ last = NoEvent

SessionUsers == {"u1", "u2"}

SessionStart == \E u \in SessionUsers : \E d \in Draws(u) : Text(u, StartText, d[1], d[2])
SessionLeaveSub == \E u \in SessionUsers : ClickLeaveSub(u, "Q_A")
SessionConfirmLeave == \E u \in SessionUsers : ClickConfirmLeave(u, "Q_A")
SessionCancelLeave == \E u \in SessionUsers : ClickCancelLeave(u, "Q_A")

NextSession ==
  \/ SessionStart \/ SessionLeaveSub \/ SessionConfirmLeave \/ SessionCancelLeave
  \/ StoreFlips

SpecSession == InitSession /\ [][NextSession]_vars

----------------------------------------------------------------------------
(* Leaving a step: /start, the menu and the inactivity reset *)

\* bot.action('EDIT_NAME')
EditNameAction(u, s) ==
  SessionOnly(u, [s EXCEPT !.step = "editFullName"], "EDIT_NAME", "editName", "askNewName")

\* bot.action('EDIT_EMAIL')
EditEmailAction(u, s) ==
  SessionOnly(u, [s EXCEPT !.step = "editEmail"], "EDIT_EMAIL", "editEmail", "askNewEmail")

ClickEditName(u) == Click(u, "EDIT_NAME", LAMBDA s : EditNameAction(u, s))
ClickEditEmail(u) == Click(u, "EDIT_EMAIL", LAMBDA s : EditEmailAction(u, s))

\* u1 is registered and has listed Q_A; u2, the participant, is not registered
InitEscape ==
  /\ users = {RegisteredRow("u1")}
  /\ subs = {ListedRow("Q_A", "u1", 1)}
  /\ leaveReqs = <<>>
  /\ payments = <<>>
  /\ balance = [u \in Users |-> NoInt]
  /\ session = [u \in Users |-> EmptySession]
  /\ storeUp = TRUE
  /\ otherStore = [u \in Users |-> EmptySession]
  /\ inflight = [u \in Users |-> Idle]
  /\ fetching = NoFetch
  /\ sweeping = NoSweep
  /\ dispatch = NoUpdate
  /\ subcategoriesMap = StaticCatalog
  /\ now = 0
  /\ nextRef = 1
  /\ pc = [u \in Users |-> 0]
  /\ joinLog = <<>>
  /\ last = NoEvent

EscapeUsers == {"u2"}
EscapeTexts ==
  {StartText, MenuText, John, JohnDoe, EmailD, EmailJ, Zero, <<"1", "2", "3", "4", "5", "6">>}

EscapeText ==
  \E u \in EscapeUsers, t \in EscapeTexts : \E d \in Draws(u) : Text(u, t, d[1], d[2])
EscapeEditName == \E u \in EscapeUsers : ClickEditName(u)
EscapeEditEmail == \E u \in EscapeUsers : ClickEditEmail(u)
EscapeUpdateSlots == \E u \in EscapeUsers : ClickUpdateSlots(u, "Q_A")
EscapeUpdateDuration == \E u \in EscapeUsers : ClickUpdateDuration(u, "Q_A")
EscapeAddSub == \E u \in EscapeUsers : ClickAddSub(u)
\* the participant falls silent for longer than the inactivity threshold, once
EscapeTick == Tick /\ now' <= InactiveThreshold + 1

NextEscape ==
  \/ EscapeText \/ EscapeEditName \/ EscapeEditEmail \/ EscapeUpdateSlots
  \/ EscapeUpdateDuration \/ EscapeAddSub \/ EscapeTick

SpecEscape == InitEscape /\ [][NextEscape]_vars

\* a text of u after which the step is cleared and the main menu shown, or the
\* registration started
Escape(u) ==
  \E t \in EscapeTexts : \E d \in Draws(u) :
    /\ Text(u, t, d[1], d[2])
    /\ \/ session'[u].step = NULL /\ last' = "mainMenu"
       \/ session'[u].step = "collectFullName" /\ last' = "askFullName"

\* C21: from every reachable session state, including the ones reached through
\* validation, collaborator or persistence errors, there is a user event (retrying the
\* step, a menu request or /start) after which the session step is cleared and the main
\* menu or the start of registration is shown; no step is a dead end.  The one update
\* that follows an inactivity reset is swallowed: the reset has cleared the step then.
C21_NoDeadEnd ==
  \A u \in EscapeUsers :
    IF session[u].wasInactive THEN session[u].step = NULL ELSE ENABLED Escape(u)

\* C21 witness: the webhook failed for the new email of the registered participant, who
\* is still at a step
C21_Witness ==
  /\ HasUser("u2")
  /\ last = "editError"
  /\ session["u2"].step = "verifyNewEmail"
  /\ ~session["u2"].wasInactive

----------------------------------------------------------------------------
(* Creating a listing: Confirm and Cancel at the end of the wizard *)

\* C23: a listing record is created only by CONFIRM_SUBSCRIPTION, at most once per
\* completed wizard run, with subRemSlot equal to subSlot and an empty crew, after which
\* the wizard fields of the session are cleared; CANCEL_SUBSCRIPTION clears the wizard
\* fields and creates no listing.  A run is completed when the DURATION_ handler stores
\* the generated subId: only that stores one, and the Confirm that creates uses it up.
C23_ListedOnceOnConfirm ==
  [][ /\ subs' # subs =>
           \E u \in ListUsers :
             /\ ClickConfirmSubscription(u)
             /\ session[u].subId # NULL /\ ~HasSub(session[u].subId)
             /\ \E r \in subs' :
                  /\ subs' = subs \cup {r}
                  /\ r.subId = session[u].subId
                  /\ r.subRemSlot = r.subSlot /\ r.subSlot = session[u].subSlot
                  /\ r.crew = <<>>
             /\ ResetFieldsClear(session'[u])
      /\ \A u \in ListUsers :
           /\ (session'[u].subId # session[u].subId /\ session'[u].subId # NULL) =>
                pc[u] > 0 /\ last' = "confirmScreen"
           /\ (HasUser(u) /\ ClickCancelSubscription(u)) =>
                /\ subs' = subs
                /\ ResetFieldsClear(session'[u])
                /\ last' = "cancelled"
    ]_vars

\* C23 witness: u1 has listed once, its session is clear again, and a Cancel of a later
\* run cleared a session that held wizard fields without adding a listing
C23_Witness ==
  /\ Cardinality({r \in subs : r.userId = "u1"}) = 1
  /\ \A r \in subs : r.userId = "u1" => r.subRemSlot = r.subSlot /\ r.crew = <<>>
  /\ last = "cancelled"
  /\ ResetFieldsClear(session["u1"])

----------------------------------------------------------------------------
(* Two verifyPayment calls interleaving at their awaits *)

\* verifyPayment up to its two reads: every answer that writes nothing is given at
\* once, a successful transfer leaves the handler holding the rows it read
verifyPaymentRead(u, s, status) ==
  IF \/ s.transferReference \in {NoInt, 0} \/ s.selectedSubId = NULL
     \/ status # "success"
     \/ ~HasSub(s.selectedSubId) \/ ~HasUser(s.userId)
    THEN verifyPayment(u, s, status)
  ELSE LET sub == SubOf(s.selectedSubId)
           user == UserOf(s.userId)
       IN /\ inflight' = [inflight EXCEPT ![u] =
                            [stage |-> 1, subId |-> sub.subId, subPlan |-> sub.subPlan,
                             owner |-> sub.userId, amount |-> ParseInt(sub.subAmount).v,
                             subRemSlot |-> sub.subRemSlot, userId |-> user.userId,
                             email |-> user.email, reference |-> s.transferReference]]
          /\ session' = [session EXCEPT ![u] = s]
          /\ last' = Did(u, "VERIFY_PAYMENT", "verifyPayment", "none")
          /\ UNCHANGED <<dbvars, now, storevars, nextRef, pc, joinLog, fetching, sweeping, dispatch, subcategoriesMap>>

\* a subscription.update that writes the counter and the crew it read before
verifyPaymentUpdateStale(u) ==
  /\ inflight[u].stage = 1
  /\ HasSub(inflight[u].subId)
  /\ LET sub == SubOf(inflight[u].subId) IN
       /\ subs' = (subs \ {sub})
                    \cup {[sub EXCEPT !.crew = Append(@, inflight[u].email),
                                      !.subRemSlot = inflight[u].subRemSlot - 1]}
       /\ joinLog' = Append(joinLog, [reference |-> inflight[u].reference,
                                      subId |-> sub.subId, email |-> inflight[u].email,
                                      owner |-> sub.userId])
  /\ inflight' = [inflight EXCEPT ![u].stage = 2]
  /\ UNCHANGED <<users, leaveReqs, payments, balance, session, now, storevars, nextRef,
                 pc, last, fetching, sweeping, dispatch, subcategoriesMap>>

\* prisma.subscription.update with crew: { push } and subRemSlot: { decrement: 1 }, on
\* the row as it is now
verifyPaymentUpdate(u) ==
  /\ inflight[u].stage = 1
  /\ HasSub(inflight[u].subId)
  /\ LET sub == SubOf(inflight[u].subId) IN
       /\ subs' = (subs \ {sub}) \cup {JoinRow(sub, inflight[u].email)}
       /\ joinLog' = Append(joinLog, [reference |-> inflight[u].reference,
                                      subId |-> sub.subId, email |-> inflight[u].email,
                                      owner |-> sub.userId])
  /\ inflight' = [inflight EXCEPT ![u].stage = 2]
  /\ UNCHANGED <<users, leaveReqs, payments, balance, session, now, storevars, nextRef,
                 pc, last, fetching, sweeping, dispatch, subcategoriesMap>>

\* prisma.payment.create
verifyPaymentCreate(u) ==
  /\ inflight[u].stage = 2
  /\ payments' = Append(payments,
                        [userId |-> inflight[u].userId, subId |-> inflight[u].subId,
                         subPlan |-> inflight[u].subPlan, amount |-> inflight[u].amount,
                         reference |-> inflight[u].reference, status |-> "success"])
  /\ inflight' = [inflight EXCEPT ![u].stage = 3]
  /\ UNCHANGED <<users, subs, leaveReqs, balance, session, now, storevars, nextRef, pc,
                 joinLog, last, fetching, sweeping, dispatch, subcategoriesMap>>

\* prisma.balance.upsert with balance: { increment }, then the session is cleared and
\* the join confirmed
verifyPaymentUpsert(u) ==
  /\ inflight[u].stage = 3
  /\ balance' = Upsert(balance, inflight[u].owner, inflight[u].amount)
  /\ session' = [session EXCEPT ![u] = [@ EXCEPT !.step = NULL, !.authUrl = NULL,
                                                 !.transferReference = NoInt,
                                                 !.selectedSubId = NULL]]
  /\ inflight' = [inflight EXCEPT ![u] = Idle]
  /\ last' = Did(u, "VERIFY_PAYMENT", "verifyPayment", "joined")
  /\ UNCHANGED <<users, subs, leaveReqs, payments, now, storevars, nextRef, pc, joinLog, fetching, sweeping, dispatch, subcategoriesMap>>

ClickVerifyPaymentRead(u, status) ==
  Click(u, "VERIFY_PAYMENT", LAMBDA s : verifyPaymentRead(u, s, status))

\* u1 has listed Q_A with two slots and Q_B with one; u2 and u3 are registered
InitRace ==
  /\ users = {RegisteredRow("u1"), RegisteredRow("u2"), RegisteredRow("u3")}
  /\ subs = {ListedRow("Q_A", "u1", 2), ListedRow("Q_B", "u1", 1)}
  /\ leaveReqs = <<>>
  /\ payments = <<>>
  /\ balance = [u \in Users |-> NoInt]
  /\ session = [u \in Users |-> EmptySession]
  /\ storeUp = TRUE
  /\ otherStore = [u \in Users |-> EmptySession]
  /\ inflight = [u \in Users |-> Idle]
  /\ fetching = NoFetch
  /\ sweeping = NoSweep
  /\ dispatch = NoUpdate
  /\ subcategoriesMap = StaticCatalog
  /\ now = 0
  /\ nextRef = 1
  /\ pc = [u \in Users |-> 0]
  /\ joinLog = <<>>
  /\ last = NoEvent

RaceUsers == {"u2", "u3"}
RaceSubIds == {"Q_A", "Q_B"}

\* a participant sends nothing while its verifyPayment is under way
RaceStart ==
  \E u \in RaceUsers : \E d \in Draws(u) :
    inflight[u].stage = 0 /\ session[u].userId = NULL /\ Text(u, StartText, d[1], d[2])
RaceSelectSub ==
  \E u \in RaceUsers, subId \in RaceSubIds :
    /\ inflight[u].stage = 0 /\ session[u].userId # NULL
    /\ session[u].selectedSubId = NULL
    /\ ClickSelectSub(u, subId)
RacePaySub ==
  \E u \in RaceUsers :
    /\ inflight[u].stage = 0 /\ session[u].selectedSubId # NULL
    /\ session[u].transferReference = NoInt
    /\ ClickPaySub(u, "ok")
RaceVerifyRead ==
  \E u \in RaceUsers : inflight[u].stage = 0 /\ ClickVerifyPaymentRead(u, "success")
RaceVerifyUpdate == \E u \in RaceUsers : verifyPaymentUpdate(u)
RaceVerifyCreate == \E u \in RaceUsers : verifyPaymentCreate(u)
RaceVerifyUpsert == \E u \in RaceUsers : verifyPaymentUpsert(u)

NextRace ==
  \/ RaceStart \/ RaceSelectSub \/ RacePaySub \/ RaceVerifyRead \/ RaceVerifyUpdate
  \/ RaceVerifyCreate \/ RaceVerifyUpsert

SpecRace == InitRace /\ [][NextRace]_vars


\* the number of subscription updates verifyPayment has made for the listing subId
JoinsOf(subId) == Cardinality({i \in 1..Len(joinLog) : joinLog[i].subId = subId})

\* the sum of the amounts of the payment rows from row i on
RECURSIVE PaidFrom(_)
PaidFrom(i) == IF i > Len(payments) THEN 0 ELSE payments[i].amount + PaidFrom(i + 1)

\* the amounts of the payments whose balance.upsert is still to come
RECURSIVE Uncredited(_)
Uncredited(S) ==
  IF S = {} THEN 0
  ELSE LET u == CHOOSE x \in S : TRUE
       IN (IF inflight[u].stage = 3 THEN inflight[u].amount ELSE 0) + Uncredited(S \ {u})

\* C24: two successful joins on the same listing, or two successful joins crediting the
\* same owner, applied in any interleaving, decrement the remaining slots by exactly 2
\* and raise the owner's balance by exactly the sum of both amounts (no lost update on
\* the counter or the balance): at every point the counter is the slot count less the
\* updates made, and the balance is the sum of the amounts credited.
C24_NoLostUpdate ==
  /\ \A r \in subs :
       /\ r.subRemSlot = r.subSlot - JoinsOf(r.subId)
       /\ Len(r.crew) = JoinsOf(r.subId)
  /\ LET credited == PaidFrom(1) - Uncredited(RaceUsers)
     IN balance["u1"] = IF credited = 0 THEN NoInt ELSE credited

\* C24 witness: u2 and u3 joined Q_A with their calls interleaved (u2 updated the
\* listing first, u3 created its payment first); no slot is left and u1 has both amounts
C24_Witness ==
  /\ \A u \in RaceUsers : inflight[u].stage = 0
  /\ SubOf("Q_A").crew = <<EmailD, EmailJ>>
  /\ SubOf("Q_A").subRemSlot = 0
  /\ Len(payments) = 2 /\ payments[1].userId = "u3" /\ payments[2].userId = "u2"
  /\ balance["u1"] = payments[1].amount + payments[2].amount
  /\ balance["u1"] = 1900

----------------------------------------------------------------------------
(* Validation errors *)

\* t is the decimal notation of a number
IsNumber(t) == t # <<>> /\ \A i \in 1..Len(t) : IsDigit(t[i])

\* t is not a valid input of the step
InvalidInput(step, t) ==
  \/ step \in {"collectEmail", "editEmail"} /\ ~EmailRegex(ToLowerCase(Trim(t)))
  \/ step \in {"enterSlot", "updateSlots"}
       /\ ~(IsNumber(Trim(t)) /\ DigitsPrefix(Trim(t), 0) > 0)
  \/ step = "enterWhatsApp" /\ ~WhatsAppRegex(Trim(t))
  \/ step = "updateDuration"
       /\ ~(IsNumber(Trim(t)) /\ DigitsPrefix(Trim(t), 0) \in 1..12)

ValidationTexts == RegTexts \cup ListTexts \cup OwnerTexts
CorrectivePrompts == {"invalidEmail", "invalidSlots", "invalidWhatsApp", "invalidDuration"}

\* the update of u left the step and the wizard and registration fields of its session
\* as they were
FieldsKept(u) ==
  [session'[u] EXCEPT !.lastActive = NoInt, !.userId = NULL]
    = [session[u] EXCEPT !.lastActive = NoInt, !.userId = NULL]

\* C25: a malformed email, a non-numeric or non-positive slot count, a phone number not
\* matching +<10 to 15 digits>, or a duration outside 1..12 is answered with a
\* corrective prompt and leaves the session step and every stored wizard or
\* registration field unchanged.  Texts that are commands (/start, a menu request) and
\* updates the inactivity middleware does not pass on are left aside.
C25_ValidationReprompts ==
  [][ \A u \in Users :
        /\ \A t \in ValidationTexts :
             ( /\ InvalidInput(session[u].step, t)
               /\ ~IsStartCommand(t) /\ ~MatchesMenu(t)
               /\ InactivityMiddleware(session[u]).pass
               /\ \E d \in Draws(u) : Text(u, t, d[1], d[2]) ) =>
               /\ last' \in CorrectivePrompts
               /\ FieldsKept(u)
               /\ UNCHANGED dbvars
        /\ \A duration \in ListDurations :
             ( /\ duration \notin 1..12
               /\ InactivityMiddleware(session[u]).pass
               /\ ClickDuration(u, duration) ) =>
               /\ last' = "invalidDuration"
               /\ FieldsKept(u)
               /\ UNCHANGED dbvars
    ]_vars


\* C25 for the texts parseInt reads whole or not at all
ValidationRepromptsWholeNumbers ==
  [][ \A u \in Users : \A t \in ValidationTexts :
        ( /\ InvalidInput(session[u].step, t)
          /\ IsNumber(Trim(t)) \/ ParseInt(Trim(t)).nan
          /\ ~IsStartCommand(t) /\ ~MatchesMenu(t)
          /\ InactivityMiddleware(session[u]).pass
          /\ \E d \in Draws(u) : Text(u, t, d[1], d[2]) ) =>
          /\ last' \in CorrectivePrompts
          /\ FieldsKept(u)
          /\ UNCHANGED dbvars ]_vars


\* ---------------------------------------------------------------------------
\* Persistence failures
\* ---------------------------------------------------------------------------

\* the replies of the catch blocks around a database write
WriteErrorReplies == {"registerError", "updateError", "saveError", "leaveError"}

\* C26: whenever a database write fails in a handler, the user is informed
\* and the session step is cleared, not left at the step that failed.
C26_WriteFailureClearsStep ==
  [][ \A u \in Users : \A t \in ValidationTexts :
        ( /\ session[u].step # NULL
          /\ \E d \in Draws(u) : Text(u, t, d[1], d[2])
          /\ last' \in WriteErrorReplies ) =>
          session'[u].step = NULL ]_vars


\* ---------------------------------------------------------------------------
\* fetchWithRetry: the bounded retry around the outbound HTTP calls
\* ---------------------------------------------------------------------------

\* the retry counts a call is made with; the callers pass none and get 3
MaxFetchRetries == 3

\* how one await fetch(url, options) settles: a response with response.ok whose
\* body parses, one whose body does not, a response without response.ok, or a
\* rejection
FetchOutcomes == {"ok", "okBadJson", "httpClientError", "httpServerError", "networkError"}
FetchFailures == {"httpClientError", "httpServerError", "networkError"}

\* fetchWithRetry, up to its first await: for (let i = 0; i < retries; i++)
fetchWithRetryCall(retries) ==
  /\ fetching.stage \in {"idle", "returned", "threw"}
  /\ fetching' = [NoFetch EXCEPT !.retries = retries,
                                 !.stage = IF 0 < retries THEN "fetch" ELSE "returned"]
  /\ UNCHANGED <<dbvars, session, now, storevars, inflight, nextRef, pc, joinLog, last, sweeping, dispatch, subcategoriesMap>>

\* the catch block without if (i === retries - 1) throw err
fetchSettlesNeverThrows(outcome) ==
  /\ fetching.stage = "fetch"
  /\ LET f == [fetching EXCEPT !.attempts = @ + 1, !.log = Append(@, outcome)] IN
       fetching' =
         IF outcome \in FetchFailures
           THEN [f EXCEPT !.stage = "sleep"]
         ELSE [f EXCEPT !.stage = "returned",
                        !.result = [kind |-> outcome, attempt |-> f.attempts]]
  /\ UNCHANGED <<dbvars, session, now, storevars, inflight, nextRef, pc, joinLog, last, sweeping, dispatch, subcategoriesMap>>

\* fetchWithRetry, from await fetch(...) settling to the return, the throw or the
\* sleep.  return response.json() hands the caller the promise of the body: a
\* body that does not parse rejects at the caller and is not caught here.
fetchSettles(outcome) ==
  /\ fetching.stage = "fetch"
  /\ LET f == [fetching EXCEPT !.attempts = @ + 1, !.log = Append(@, outcome)] IN
       fetching' =
         IF outcome \in FetchFailures
           THEN IF f.i = f.retries - 1
                  THEN [f EXCEPT !.stage = "threw",
                                 !.error = [kind |-> outcome, attempt |-> f.attempts]]
                ELSE [f EXCEPT !.stage = "sleep"]
         ELSE [f EXCEPT !.stage = "returned",
                        !.result = [kind |-> outcome, attempt |-> f.attempts]]
  /\ UNCHANGED <<dbvars, session, now, storevars, inflight, nextRef, pc, joinLog, last, sweeping, dispatch, subcategoriesMap>>

\* fetchWithRetry, from the timer of setTimeout(resolve, delay) to the next
\* iteration, or to the end of the loop
fetchSleepEnds ==
  /\ fetching.stage = "sleep"
  /\ fetching' = [fetching EXCEPT !.i = @ + 1,
                                  !.stage = IF fetching.i + 1 < fetching.retries
                                              THEN "fetch" ELSE "returned"]
  /\ UNCHANGED <<dbvars, session, now, storevars, inflight, nextRef, pc, joinLog, last, sweeping, dispatch, subcategoriesMap>>

InitFetch == InitRace

FetchCall == \E retries \in 1..MaxFetchRetries : fetchWithRetryCall(retries)
FetchSettles == \E outcome \in FetchOutcomes : fetchSettles(outcome)
FetchSleepEnds == fetchSleepEnds

NextFetch == FetchCall \/ FetchSettles \/ FetchSleepEnds

\* fetch settles and the timer fires: both are left to the runtime
SpecFetch ==
  InitFetch /\ [][NextFetch]_vars /\ WF_vars(FetchSettles) /\ WF_vars(FetchSleepEnds)

AllFailed(log) == \A k \in 1..Len(log) : log[k] \in FetchFailures

FetchBounded ==
  /\ fetching.attempts = Len(fetching.log)
  /\ fetching.attempts <= fetching.retries
  /\ fetching.stage = "returned" =>
       /\ fetching.attempts >= 1
       /\ fetching.log[fetching.attempts] \notin FetchFailures
       /\ AllFailed(SubSeq(fetching.log, 1, fetching.attempts - 1))
       /\ fetching.result = [kind |-> fetching.log[fetching.attempts],
                             attempt |-> fetching.attempts]
  /\ (fetching.attempts = fetching.retries /\ fetching.stage # "idle"
        /\ AllFailed(fetching.log)) =>
       /\ fetching.stage = "threw"
       /\ fetching.error = [kind |-> fetching.log[fetching.retries],
                            attempt |-> fetching.retries]
  /\ fetching.stage = "threw" =>
       fetching.attempts = fetching.retries /\ AllFailed(fetching.log)

\* C27: fetchWithRetry makes at most retries attempts; it returns the result of
\* the first successful attempt and attempts no more; when every attempt fails
\* it throws the last error after exactly retries attempts; it terminates.
C27_BoundedRetry ==
  /\ []FetchBounded
  /\ (fetching.stage \in {"fetch", "sleep"}) ~> (fetching.stage \in {"returned", "threw"})

C27_Witness ==
  /\ fetching.stage = "threw" /\ fetching.retries = 3 /\ fetching.attempts = 3
  /\ fetching.error = [kind |-> "networkError", attempt |-> 3]


\* ---------------------------------------------------------------------------
\* Renewing a joined subscription
\* ---------------------------------------------------------------------------

\* created.setMonth(created.getMonth() + parseInt(sub.subDuration)), a month
\* taken as 30 days
Expires(sub) == sub.createdAt + ParseInt(sub.subDuration).v * 30 * DayMinutes

\* the days of new Date(now.setDate(now.getDate() + 7))
RenewLookaheadDays == 7

\* isExpiring: setDate moves now itself, so the second comparison is with the
\* same instant as the first
IsExpiring(sub, t) ==
  LET moved == t + RenewLookaheadDays * DayMinutes IN
  Expires(sub) < moved \/ Expires(sub) < moved

\* renewSubscription without the look at the expiry date
renewSubscriptionAlwaysDue(u, s, subId, outcome) ==
  IF ~HasSub(subId) \/ ~InCrew(SubOf(subId).crew, s.email)
    THEN SessionOnly(u, s, "RENEW_SUB", "renewSubscription", "invalidSubscription")
  ELSE initiatePayment(u, [s EXCEPT !.selectedSubId = subId], "RENEW_SUB", outcome)

\* renewSubscription
renewSubscription(u, s, subId, outcome) ==
  IF ~HasSub(subId) \/ ~InCrew(SubOf(subId).crew, s.email)
    THEN SessionOnly(u, s, "RENEW_SUB", "renewSubscription", "invalidSubscription")
  ELSE IF ~IsExpiring(SubOf(subId), now)
    THEN SessionOnly(u, s, "RENEW_SUB", "renewSubscription", "stillActive")
  ELSE initiatePayment(u, [s EXCEPT !.selectedSubId = subId], "RENEW_SUB", outcome)

\* bot.action(/^RENEW_SUB_(.+)$/)
ClickRenewSub(u, subId, outcome) ==
  Click(u, "RENEW_SUB", LAMBDA s : renewSubscription(u, s, subId, outcome))

\* u2 has joined Q_A, which expires on day 9, and Q_B, which expired a day ago;
\* u3 has joined neither
InitRenew ==
  /\ users = {RegisteredRow("u1"), RegisteredRow("u2"), RegisteredRow("u3")}
  /\ subs = {[JoinRow(ListedRow("Q_A", "u1", 2), EmailD)
                EXCEPT !.createdAt = 0 - 21 * DayMinutes],
             [JoinRow(ListedRow("Q_B", "u1", 2), EmailD)
                EXCEPT !.createdAt = 0 - 31 * DayMinutes]}
  /\ leaveReqs = <<>>
  /\ payments = <<>>
  /\ balance = [u \in Users |-> NoInt]
  /\ session = [u \in Users |-> EmptySession]
  /\ storeUp = TRUE
  /\ otherStore = [u \in Users |-> EmptySession]
  /\ inflight = [u \in Users |-> Idle]
  /\ fetching = NoFetch
  /\ sweeping = NoSweep
  /\ dispatch = NoUpdate
  /\ subcategoriesMap = StaticCatalog
  /\ now = 0
  /\ nextRef = 1
  /\ pc = [u \in Users |-> 0]
  /\ joinLog = <<>>
  /\ last = NoEvent

RenewUsers == {"u2", "u3"}
\* Q_C is the id of no listing
RenewSubIds == {"Q_A", "Q_B", "Q_C"}
RenewOutcomes == {"ok", "failed"}

\* a participant sends /start when its session knows no user
RenewStart ==
  \E u \in RenewUsers : \E d \in Draws(u) :
    session[u].userId = NULL /\ Text(u, StartText, d[1], d[2])
RenewClick ==
  \E u \in RenewUsers, subId \in RenewSubIds, outcome \in RenewOutcomes :
    ClickRenewSub(u, subId, outcome)
RenewTick == Tick

NextRenew == RenewStart \/ RenewClick \/ RenewTick

SpecRenew == InitRenew /\ [][NextRenew]_vars

PaymentFieldsKept(u) ==
  /\ session'[u].selectedSubId = session[u].selectedSubId
  /\ session'[u].authUrl = session[u].authUrl
  /\ session'[u].transferReference = session[u].transferReference

InitiatePaymentReplies ==
  {"paymentError", "invalidAmount", "invalidUserEmail", "initiateFailed", "payLink"}

InitUpdate ==
  /\ users = {RegisteredRow("u1"), RegisteredRow("u2")}
  /\ subs = {JoinRow(ListedRow("Q_A", "u1", 2), EmailD)}
  /\ leaveReqs = <<>>
  /\ payments = <<>>
  /\ balance = [u \in Users |-> NoInt]
  /\ session = [u \in Users |-> EmptySession]
  /\ storeUp = TRUE
  /\ otherStore = [u \in Users |-> EmptySession]
  /\ inflight = [u \in Users |-> Idle]
  /\ fetching = NoFetch
  /\ sweeping = NoSweep
  /\ dispatch = NoUpdate
  /\ subcategoriesMap = StaticCatalog
  /\ now = 0
  /\ nextRef = 1
  /\ pc = [u \in Users |-> 0]
  /\ joinLog = <<>>
  /\ last = NoEvent

UpdateUsers == {"u1"}
UpdateSubIds == {"Q_A"}
UpdateTexts == {One, Two, Zero, WhatsAppNumber}

UpdateStart == \E u \in UpdateUsers : \E d \in Draws(u) : Text(u, StartText, d[1], d[2])
UpdateText ==
  \E u \in UpdateUsers, t \in UpdateTexts : \E d \in Draws(u) : Text(u, t, d[1], d[2])
UpdateSlots == \E u \in UpdateUsers, subId \in UpdateSubIds : ClickUpdateSlots(u, subId)
UpdateShareAccess ==
  \E u \in UpdateUsers, subId \in UpdateSubIds : ClickUpdateShareAccess(u, subId)
UpdateShareOtp == \E u \in UpdateUsers : ClickShareOtp(u)
UpdateShareLogin == \E u \in UpdateUsers : ClickShareLogin(u)
UpdateDuration == \E u \in UpdateUsers : ClickDuration(u, 1)
UpdateGenerate ==
  \E u \in UpdateUsers, subId \in SubIds, persisted \in BOOLEAN :
    GenerateAttempt(u, subId, persisted)
UpdateConfirm == \E u \in UpdateUsers : ClickConfirmSubscription(u)

NextUpdate ==
  \/ UpdateStart \/ UpdateText \/ UpdateSlots \/ UpdateShareAccess \/ UpdateShareOtp
  \/ UpdateShareLogin \/ UpdateDuration \/ UpdateGenerate \/ UpdateConfirm

SpecUpdate == InitUpdate /\ [][NextUpdate]_vars

\* C29: a successful slot-count update with value n > 0 sets the listing's
\* total slots and its remaining slots both to n, whatever the size of the
\* crew, and clears the update step and updateSubId from the session.
C29_SlotsResetRemaining ==
  [][ \A u \in UpdateUsers : \A t \in UpdateTexts :
        ( /\ session[u].step = "updateSlots"
          /\ InactivityMiddleware(session[u]).pass
          /\ \E d \in Draws(u) : Text(u, t, d[1], d[2])
          /\ last' = "slotsUpdated" ) =>
          LET n == ParseInt(Trim(t)).v
              old == SubOf(session[u].updateSubId)
          IN /\ n > 0
             /\ subs' = (subs \ {old}) \cup {[old EXCEPT !.subSlot = n, !.subRemSlot = n]}
             /\ session'[u].step = NULL
             /\ session'[u].updateSubId = NULL ]_vars

\* Q_A, with u2 in its crew, was set to 1 slot and shows 1 remaining
C29_Witness ==
  /\ last = "slotsUpdated"
  /\ session["u1"].step = NULL
  /\ \E r \in subs : r.subId = "Q_A" /\ Len(r.crew) = 1
                     /\ r.subSlot = 1 /\ r.subRemSlot = 1


\* the steps of the add-listing wizard
WizardSteps ==
  {"enterSlot", "shareType", "enterEmail", "enterPassword", "enterWhatsApp",
   "selectDuration", "confirmSubscription"}

\* C30: once the owner has chosen to update a listing's share access, choosing
\* the method and giving its credentials overwrites the share type and the
\* credentials of that listing; the flow does not enter the add-listing wizard
\* and creates no listing.
C30_ShareAccessOverwrites ==
  [][ \A u \in UpdateUsers :
        ( /\ session[u].step = "updateShareAccess"
          /\ HasSub(session[u].updateSubId)
          /\ InactivityMiddleware(session[u]).pass
          /\ ClickShareOtp(u) \/ ClickShareLogin(u) ) =>
          /\ session'[u].step \notin WizardSteps
          /\ session'[u].updateSubId = session[u].updateSubId ]_vars

\* no run of the owner changes the share type or the credentials of Q_A
ShareAccessNeverWritten ==
  \A r \in subs : r.subId = "Q_A" => r.shareType = "otp" /\ r.subEmail = WhatsAppNumber

\* the share-access update that went through the wizard to its Confirm button
ShareUpdateEndsInWizard ==
  /\ session["u1"].shareType = "login" /\ session["u1"].updateSubId = "Q_A"
  /\ session["u1"].step = "confirmSubscription"


\* ---------------------------------------------------------------------------
\* From the credentials to the confirmation screen
\* ---------------------------------------------------------------------------

\* the credentials the wizard accepts at the step
ValidCredentials(step, t) ==
  \/ step = "enterPassword"
  \/ step = "enterWhatsApp" /\ WhatsAppRegex(Trim(t))

\* C31: once valid credentials are collected (the password, or a valid phone
\* number), the user is prompted to choose a duration; a value in 1..12 then
\* leads to the confirmation screen with a generated short id.
C31_CredentialsThenDuration ==
  [][ \A u \in ListUsers :
        /\ \A t \in ListTexts :
             ( /\ ValidCredentials(session[u].step, t)
               /\ ~IsStartCommand(t) /\ ~MatchesMenu(t)
               /\ InactivityMiddleware(session[u]).pass
               /\ \E d \in Draws(u) : Text(u, t, d[1], d[2]) ) =>
               /\ session'[u].step = "selectDuration"
               /\ last' = "askDuration"
        /\ ( /\ pc[u] # 0
             /\ \E subId \in SubIds, persisted \in BOOLEAN :
                  GenerateAttempt(u, subId, persisted)
             /\ last' = "confirmScreen" ) =>
             /\ session'[u].step = "confirmSubscription"
             /\ session'[u].subId \in SubIds
             /\ session'[u].subDuration \in 1..12 ]_vars

\* the second half of C31 alone: a duration in 1..12 ends at the confirmation screen
DurationThenConfirm ==
  [][ \A u \in ListUsers :
        ( /\ pc[u] # 0
          /\ \E subId \in SubIds, persisted \in BOOLEAN :
               GenerateAttempt(u, subId, persisted)
          /\ last' = "confirmScreen" ) =>
          /\ session'[u].step = "confirmSubscription"
          /\ session'[u].subId \in SubIds
          /\ session'[u].subDuration \in 1..12 ]_vars


\* ---------------------------------------------------------------------------
\* The sweep under fairness
\* ---------------------------------------------------------------------------

\* the cron job fires at every midnight and the clock does not stop before the
\* last day
SpecLeaveFair == InitLeave /\ [][NextLeave]_vars /\ WF_vars(Sweep) /\ WF_vars(Tick)

DuePending(i) ==
  /\ i <= Len(leaveReqs)
  /\ leaveReqs[i].status = "pending"
  /\ leaveReqs[i].expiresAt <= now

CompletedAndOut(i) ==
  /\ i <= Len(leaveReqs)
  /\ leaveReqs[i].status = "completed"
  /\ \A r \in subs :
       r.subId = leaveReqs[i].subId => ~InCrew(r.crew, UserOf(leaveReqs[i].userId).email)

\* C32: under fairness of the daily sweep, every leave request that is pending
\* with an expiry at or before now is eventually marked completed, with the
\* requester out of the listing's crew.
C32_DueRequestsCompleted ==
  \A i \in 1..MaxLeaveReqs : DuePending(i) ~> CompletedAndOut(i)

\* C32 but for the requests cancelled after their expiry
DueCompletedOrCancelled ==
  \A i \in 1..MaxLeaveReqs :
    DuePending(i) ~> \/ CompletedAndOut(i)
                     \/ i <= Len(leaveReqs) /\ leaveReqs[i].status = "cancelled"


\* ---------------------------------------------------------------------------
\* Slots and crew
\* ---------------------------------------------------------------------------

\* C33: for every listing, in every reachable state, subRemSlot plus the number
\* of crew members equals subSlot.
C33_SlotsPlusCrew ==
  \A r \in subs : r.subRemSlot + Len(r.crew) = r.subSlot


\* C34: a listing's crew never contains the same email twice, after any
\* sequence of joins, renewals and email changes.
C34_CrewHasNoDuplicates ==
  \A r \in subs : \A i, j \in 1..Len(r.crew) : r.crew[i] = r.crew[j] => i = j


\* ---------------------------------------------------------------------------
\* verifyPayment with a database that fails part-way
\* ---------------------------------------------------------------------------

\* verifyPayment, when one of its three writes throws: the catch block answers
\* 'Payment verification failed' and the session keeps what it held
verifyPaymentThrows(u) ==
  /\ inflight[u].stage \in {1, 2, 3}
  /\ inflight' = [inflight EXCEPT ![u] = Idle]
  /\ last' = Did(u, "VERIFY_PAYMENT", "verifyPayment", "verifyFailed")
  /\ UNCHANGED <<dbvars, session, now, storevars, nextRef, pc, joinLog, fetching, sweeping, dispatch, subcategoriesMap>>

\* no write of a verifyPayment has failed after an earlier write of the call went through
NoPartialJoin ==
  /\ Len(joinLog) =
       Len(payments) + Cardinality({u \in RaceUsers : inflight[u].stage = 2})
  /\ LET credited == PaidFrom(1) - Uncredited(RaceUsers)
     IN balance["u1"] = IF credited = 0 THEN NoInt ELSE credited

\* the database fails part-way at most once in a run
PartialVerifyThrows == NoPartialJoin /\ \E u \in RaceUsers : verifyPaymentThrows(u)

NextPartial == NextRace \/ PartialVerifyThrows

SpecPartial == InitRace /\ [][NextPartial]_vars

\* the verifyPayment call that made join i of the log has ended
CallEnded(i) == \A u \in RaceUsers : inflight[u].reference # joinLog[i].reference

\* C35: the side effects of a successful verification are all-or-nothing: once
\* the call has ended, also through a failed write, no listing has gained the
\* member and lost the slot without the payment record and the owner's credit.
C35_JoinAllOrNothing ==
  /\ \A i \in 1..Len(joinLog) :
       CallEnded(i) => \E k \in 1..Len(payments) :
                         payments[k].reference = joinLog[i].reference
  /\ (\A u \in RaceUsers : inflight[u].stage = 0) =>
       /\ Len(payments) = Len(joinLog)
       /\ balance["u1"] = IF PaidFrom(1) = 0 THEN NoInt ELSE PaidFrom(1)


\* ---------------------------------------------------------------------------
\* The sweep interleaving, at its awaits, with a join and a cancellation
\* ---------------------------------------------------------------------------

\* the cron job up to the end of await prisma.leaveRequest.findMany
sweepFindMany ==
  /\ sweeping.stage = "idle"
  /\ now % DayMinutes = 0
  /\ sweeping' = [NoSweep EXCEPT !.stage = "loop", !.queue = ExpiredFrom(1)]
  /\ last' = Did(NULL, "cron", "sweep", "none")
  /\ UNCHANGED <<dbvars, session, now, storevars, inflight, nextRef, pc, joinLog, fetching, dispatch, subcategoriesMap>>

\* the loop body up to the end of its two findUnique: the listing and the user
\* as they are now, or continue when one is missing
sweepRead ==
  /\ sweeping.stage = "loop" /\ sweeping.queue # <<>>
  /\ LET req == leaveReqs[Head(sweeping.queue)] IN
       sweeping' =
         IF ~HasSub(req.subId) \/ ~HasUser(req.userId)
           THEN [sweeping EXCEPT !.queue = Tail(@)]
         ELSE [sweeping EXCEPT !.stage = "write", !.crew = SubOf(req.subId).crew,
                               !.email = UserOf(req.userId).email]
  /\ UNCHANGED <<dbvars, session, now, storevars, inflight, nextRef, pc, joinLog, last, fetching, dispatch, subcategoriesMap>>

\* prisma.subscription.update with crew: sub.crew.filter(...), the crew read
\* before, and subRemSlot: { increment: 1 }, on the row as it is now
sweepUpdate ==
  /\ sweeping.stage = "write"
  /\ LET req == leaveReqs[Head(sweeping.queue)]
         sub == SubOf(req.subId)
     IN subs' = (subs \ {sub})
                  \cup {[sub EXCEPT !.crew = FilterCrew(sweeping.crew, sweeping.email),
                                    !.subRemSlot = @ + 1]}
  /\ sweeping' = [sweeping EXCEPT !.stage = "mark"]
  /\ UNCHANGED <<users, leaveReqs, payments, balance, session, now, storevars, inflight,
                 nextRef, pc, joinLog, last, fetching, dispatch, subcategoriesMap>>

\* prisma.leaveRequest.update({ where: { id: req.id }, data: { status: 'completed' } })
sweepMark ==
  /\ sweeping.stage = "mark"
  /\ leaveReqs' = [leaveReqs EXCEPT ![Head(sweeping.queue)].status = "completed"]
  /\ sweeping' = [sweeping EXCEPT !.stage = "loop", !.queue = Tail(@)]
  /\ UNCHANGED <<users, subs, payments, balance, session, now, storevars, inflight,
                 nextRef, pc, joinLog, last, fetching, dispatch, subcategoriesMap>>

\* the end of the for loop
sweepEnd ==
  /\ sweeping.stage = "loop" /\ sweeping.queue = <<>>
  /\ sweeping' = NoSweep
  /\ UNCHANGED <<dbvars, session, now, storevars, inflight, nextRef, pc, joinLog, last, fetching, dispatch, subcategoriesMap>>

\* midnight of the day the leave request of u2, member of Q_A, expires; u3 is
\* registered and Q_A has a free slot
InitOverlap ==
  /\ users = {RegisteredRow("u1"), RegisteredRow("u2"), RegisteredRow("u3")}
  /\ subs = {JoinRow(ListedRow("Q_A", "u1", 2), EmailD)}
  /\ leaveReqs = << [id |-> 1, userId |-> "u2", subId |-> "Q_A", status |-> "pending",
                     createdAt |-> 0 - LeaveGraceDays * DayMinutes, cancelSeen |-> 0,
                     expiresAt |-> 0] >>
  /\ payments = << [userId |-> "u2", subId |-> "Q_A", subPlan |-> "Spotify Family",
                    amount |-> PlanPrice(15) + ServiceFee, reference |-> 1,
                    status |-> "success"] >>
  /\ balance = [u \in Users |-> IF u = "u1" THEN PlanPrice(15) + ServiceFee ELSE NoInt]
  /\ session = [u \in Users |-> EmptySession]
  /\ storeUp = TRUE
  /\ otherStore = [u \in Users |-> EmptySession]
  /\ inflight = [u \in Users |-> Idle]
  /\ fetching = NoFetch
  /\ sweeping = NoSweep
  /\ dispatch = NoUpdate
  /\ subcategoriesMap = StaticCatalog
  /\ now = 0
  /\ nextRef = 2
  /\ pc = [u \in Users |-> 0]
  /\ joinLog = << [reference |-> 1, subId |-> "Q_A", email |-> EmailD, owner |-> "u1"] >>
  /\ last = NoEvent

OverlapStart ==
  \E u \in {"u2", "u3"} : \E d \in Draws(u) :
    inflight[u].stage = 0 /\ session[u].userId = NULL /\ Text(u, StartText, d[1], d[2])
OverlapCancelLeave == ClickCancelLeave("u2", "Q_A")
OverlapSelectSub ==
  /\ inflight["u3"].stage = 0 /\ session["u3"].userId # NULL
  /\ session["u3"].selectedSubId = NULL
  /\ ClickSelectSub("u3", "Q_A")
OverlapPaySub ==
  /\ inflight["u3"].stage = 0 /\ session["u3"].selectedSubId # NULL
  /\ session["u3"].transferReference = NoInt
  /\ ClickPaySub("u3", "ok")
OverlapVerifyRead == inflight["u3"].stage = 0 /\ ClickVerifyPaymentRead("u3", "success")
OverlapVerifyUpdate == verifyPaymentUpdate("u3")
OverlapVerifyCreate == verifyPaymentCreate("u3")
OverlapVerifyUpsert == verifyPaymentUpsert("u3")

NextOverlap ==
  \/ OverlapStart \/ OverlapCancelLeave \/ OverlapSelectSub \/ OverlapPaySub
  \/ OverlapVerifyRead \/ OverlapVerifyUpdate \/ OverlapVerifyCreate
  \/ OverlapVerifyUpsert
  \/ sweepFindMany \/ sweepRead \/ sweepUpdate \/ sweepMark \/ sweepEnd

SpecOverlap == InitOverlap /\ [][NextOverlap]_vars

\* C36: when a successful join on a listing interleaves with the sweep
\* completing a leave request on the same listing, the joined member's email
\* is in the listing's crew after both have finished.
C36_JoinSurvivesSweep ==
  ( /\ sweeping.stage = "idle"
    /\ inflight["u3"].stage \in {0, 2, 3}
    /\ \E i \in 1..Len(joinLog) : joinLog[i].email = EmailJ ) =>
    \A r \in subs : r.subId = "Q_A" => InCrew(r.crew, EmailJ)

\* C37: a leave request's status only moves from pending to completed or from
\* pending to cancelled; once cancelled or completed it never changes again,
\* also when cancelLeaveRequest runs while a sweep that read the request as
\* pending is in progress.
C37_LeaveStatusFinal ==
  [][ \A i \in 1..Len(leaveReqs) :
        /\ i <= Len(leaveReqs')
        /\ leaveReqs[i].status # "pending" => leaveReqs'[i].status = leaveReqs[i].status
        /\ leaveReqs'[i].status \in {leaveReqs[i].status, "completed", "cancelled"} ]_vars


\* ---------------------------------------------------------------------------
\* The update after an inactivity reset
\* ---------------------------------------------------------------------------

\* C38: after the inactivity middleware has reset an idle session to the main
\* menu, the next event from that user is passed on to the handlers and updates
\* lastActive; it is not dropped.
C38_EventAfterResetPasses ==
  [][ \A u \in LeaveUsers :
        ( /\ session[u].wasInactive
          /\ now - session[u].lastActive <= InactiveThreshold
          /\ LeaveEvent(u) ) =>
          /\ InactivityMiddleware(session[u]).pass
          /\ last' # "dropped"
          /\ session'[u].lastActive = now ]_vars


----------------------------------------------------------------------------
(* safeSession and the handler chain, src/src/middlewares/session.js *)

\* safeSession takes an update: with the pool answering SELECT 1 it opens the session of
\* the table inside the try; a failing probe throws into the catch, which opens the
\* in-memory session
safeSessionEnters ==
  /\ dispatch.stage \in {"idle", "done", "failed"}
  /\ dispatch' = [stage |-> IF storeUp THEN "durable" ELSE "memory", inCatch |-> ~storeUp,
                  called |-> FALSE, runs |-> 0]
  /\ UNCHANGED <<dbvars, session, now, storevars, inflight, nextRef, pc, joinLog, last,
                 fetching, sweeping, subcategoriesMap>>

\* await next() that starts the chain at every call
callNextUnguarded ==
  /\ dispatch.stage \in {"durable", "memory"}
  /\ dispatch' = [dispatch EXCEPT !.stage = "chain", !.called = TRUE, !.runs = @ + 1]
  /\ last' = "running"
  /\ UNCHANGED <<dbvars, session, now, storevars, inflight, nextRef, pc, joinLog,
                 fetching, sweeping, subcategoriesMap>>

\* await next() in the callback given to the session middleware.  next is the
\* continuation bot.use composed for safeSession: its first call starts the rest of the
\* chain, and a second call for the same update is rejected by the composer with
\* 'next() called multiple times'.  The second call is the one of the catch block, so
\* the rejection leaves safeSession and reaches bot.catch.
callNext ==
  /\ dispatch.stage \in {"durable", "memory"}
  /\ IF dispatch.called
       THEN /\ dispatch' = [dispatch EXCEPT !.stage = "failed"]
            /\ last' = "unexpectedError"
       ELSE /\ dispatch' = [dispatch EXCEPT !.stage = "chain", !.called = TRUE,
                                            !.runs = @ + 1]
            /\ last' = "running"
  /\ UNCHANGED <<dbvars, session, now, storevars, inflight, nextRef, pc, joinLog,
                 fetching, sweeping, subcategoriesMap>>

ChainOutcomes == {"returns", "throws"}

\* the chain started by next() ends.  A handler that throws rejects next(): inside the
\* try the catch block logs 'Session middleware error, falling back to in-memory' and
\* opens the in-memory session; inside the catch block the error leaves safeSession and
\* bot.catch answers it.
chainEnds(outcome) ==
  /\ dispatch.stage = "chain"
  /\ IF outcome = "returns"
       THEN /\ last # "running"
            /\ dispatch' = [dispatch EXCEPT !.stage = "done"]
            /\ UNCHANGED last
       ELSE IF dispatch.inCatch
         THEN /\ dispatch' = [dispatch EXCEPT !.stage = "failed"]
              /\ last' = "unexpectedError"
         ELSE /\ dispatch' = [dispatch EXCEPT !.stage = "memory", !.inCatch = TRUE]
              /\ last' = "sessionError"
  /\ UNCHANGED <<dbvars, session, now, storevars, inflight, nextRef, pc, joinLog,
                 fetching, sweeping, subcategoriesMap>>

InitChain == InitSession

\* the handlers of the chain run once per start of the chain
ChainRuns == dispatch.stage = "chain" /\ last = "running"
ChainStart == ChainRuns /\ SessionStart
ChainLeaveSub == ChainRuns /\ SessionLeaveSub
ChainConfirmLeave == ChainRuns /\ SessionConfirmLeave
ChainCancelLeave == ChainRuns /\ SessionCancelLeave
ChainEnds == \E outcome \in ChainOutcomes : chainEnds(outcome)
\* the database goes and comes back between two updates
ChainStoreFlips == dispatch.stage \in {"idle", "done", "failed"} /\ StoreFlips

NextChain ==
  \/ safeSessionEnters \/ callNext \/ ChainEnds
  \/ ChainStart \/ ChainLeaveSub \/ ChainConfirmLeave \/ ChainCancelLeave
  \/ ChainStoreFlips

SpecChain == InitChain /\ [][NextChain]_vars

HandlersActInsideTheChain ==
  [][ (session' # session \/ leaveReqs' # leaveReqs) =>
        \/ dispatch.stage = "chain" /\ last = "running"
        \/ storeUp' # storeUp ]_vars


----------------------------------------------------------------------------
(* The catalog of categories, src/src/bot/workflows/add-subscription.js *)

\* const categories of browse-subscriptions.js: the names of the catalog, each with the
\* array the catalog holds for it
categories == [name \in DOMAIN subcategoriesMap |-> subcategoriesMap[name]]

\* C40: handleSubCategorySelection leaves the shared static catalog subcategoriesMap
\* unchanged, so the subcategory options offered for a category, and the categories the
\* browse flow derives from the same catalog, are the same after any number of calls.
C40_CatalogUnchanged ==
  /\ subcategoriesMap = StaticCatalog
  /\ categories = [name \in Categories |-> StaticCatalog[name]]

\* the names of the catalog stay, and its arrays keep what they held in front
CatalogOnlyGrows ==
  /\ DOMAIN subcategoriesMap = Categories
  /\ \A c \in Categories :
       /\ Len(subcategoriesMap[c]) >= Len(StaticCatalog[c])
       /\ SubSeq(subcategoriesMap[c], 1, Len(StaticCatalog[c])) = StaticCatalog[c]
       /\ \A i \in Len(StaticCatalog[c]) + 1 .. Len(subcategoriesMap[c]) :
            subcategoriesMap[c][i] = ReturnToCategory

\* every selection of a category adds one entry to the array of the category
CategoryAppendsOne ==
  [][ \A u \in ListUsers :
        (ClickCategory(u, "Music") /\ last' = "askSubcategory") =>
          subcategoriesMap'["Music"] = Append(subcategoriesMap["Music"], ReturnToCategory)
    ]_vars

\* the category was selected twice: its array ends with two 'Return to Category'
CatalogGrewTwice == Len(subcategoriesMap["Music"]) = Len(StaticCatalog["Music"]) + 2

====
